---- MODULE Spec2Model ----
(***************************************************************************)
(* A model of the magic-eraser vision pipeline: the temporal median        *)
(* background builder, the separable box blur, the gamma-correct linear    *)
(* light compositor and the mask painter of src/src/vision.rs, with the    *)
(* lookup tables of src/src/gamma.rs; the sparkle and lightning engine of  *)
(* src/src/fx.rs with its xorshift generator and glow stamps; and the      *)
(* frame loop of src/src/main.rs.                                          *)
(*                                                                         *)
(* Pixels are packed 0x00RRGGBB integers.  An f32 in [0, 1] is a fixed     *)
(* point integer counting steps of 1/FOne; NaN is a value of its own.      *)
(***************************************************************************)
EXTENDS Integers, Sequences, FiniteSets

VARIABLES
  frames,       \* median_background: the captured frames handed in
  bg,           \* median_background: the Result it returned
  live,         \* box_blur_rgb: src
  blur_tmp,     \* box_blur_rgb: tmp
  blur_sink,    \* box_blur_rgb: dst; blend_linear_in_place: sink
  blur_radius,  \* box_blur_rgb: radius
  screen,       \* blend_linear_in_place: fg_live
  mask,         \* the persistent alpha mask
  stamp,        \* the brush built by make_gaussian_stamp
  dabs,         \* how many dab_mask calls have run
  cursor,       \* (cx, cy) of the last dab_mask call
  overflow_checks, \* whether the build panics on integer overflow
  fx,           \* the Fx engine: generator, particle pool, bolt
  last_dt,      \* update_and_render: dt of the last call
  last_count,   \* spawn_sparkles: count of the last call
  fx_calls,     \* how many Fx calls have run
  strike,       \* stamp_additive: [kernel, base, strength] of the last call
  pc,           \* main: the step of the frame loop to run next
  result,       \* main: what it returned, once it has
  show_blur,    \* main: the B toggle
  mask_has_any, \* main: whether anything was painted since the last clear
  iters,        \* main: how many iterations have started
  presented,    \* main: how many frames were presented
  last          \* the last operation and its Result

vars == <<frames, bg, live, blur_tmp, blur_sink, blur_radius, screen, mask,
          stamp, dabs, cursor, overflow_checks, fx, last_dt, last_count, fx_calls,
          strike, pc, result, show_blur, mask_has_any, iters, presented, last>>
loop_vars == <<pc, result, show_blur, mask_has_any, iters, presented>>

----------------------------------------------------------------------------
(* Bounds of the model. *)

MaxW == 2
MaxH == 2
MaxFrames == 4
MaxRadius == 2
MaxStampRadius == 1
MaxDabs == 3
MaxParticles == 2
MaxFxCalls == 3
MaxStamps == 1
MaxIters == 2

----------------------------------------------------------------------------
(* types.rs: FrameBuffer, Mask, Stamp; packed pixels. *)

Pack(r, g, b) == r * 65536 + g * 256 + b
R(px) == (px \div 65536) % 256
G(px) == (px \div 256) % 256
B(px) == px % 256

Channels == {"r", "g", "b"}
Chan(c, px) == CASE c = "r" -> R(px) [] c = "g" -> G(px) [] OTHER -> B(px)

FrameBuffer(w, h, px) == [width |-> w, height |-> h, pixels |-> px]
Mask(w, h, al) == [width |-> w, height |-> h, alpha |-> al]
Stamp(r, ws) == [radius |-> r, weights |-> ws]

NoFrame == FrameBuffer(0, 0, <<>>)

Ok == [ok |-> TRUE, err |-> ""]
Err(msg) == [ok |-> FALSE, err |-> msg]

(* F applied to the value of v, v being computed first. *)
Then(v, F(_)) == CHOOSE out \in { F(x) : x \in {v} } : TRUE

Min(a, b) == IF a < b THEN a ELSE b
Max(a, b) == IF a > b THEN a ELSE b

RECURSIVE SumSeq(_)
SumSeq(s) == IF s = <<>> THEN 0 ELSE Head(s) + SumSeq(Tail(s))

----------------------------------------------------------------------------
(* The sample inputs: a palette of packed colours and the frames whose     *)
(* pixel at (x, y) is palette entry (a + b*x + c*y) mod the palette size.  *)

Palette == << Pack(0, 0, 0), Pack(1, 128, 254), Pack(2, 64, 11), Pack(255, 255, 255) >>

PatternFrame(w, h, a, b, c) ==
  FrameBuffer(w, h,
    [i \in 1..(w * h) |->
       Palette[((a + b * ((i - 1) % w) + c * ((i - 1) \div w)) % Len(Palette)) + 1]])

Dims == (1..MaxW) \X (1..MaxH)
PaletteIdx == 0..(Len(Palette) - 1)

PatternFrames(ds, abc) ==
  { PatternFrame(d[1], d[2], p[1], p[2], p[3]) : d \in ds, p \in abc }
BlankFrame(w, h) == FrameBuffer(w, h, [i \in 1..(w * h) |-> 0])

----------------------------------------------------------------------------
(* vision.rs: median_background *)

RECURSIVE Insert(_, _)
Insert(x, s) ==
  IF s = <<>> THEN <<x>>
  ELSE IF x <= Head(s) THEN <<x>> \o s
  ELSE <<Head(s)>> \o Insert(x, Tail(s))

RECURSIVE Ascending(_)
Ascending(s) == IF s = <<>> THEN <<>> ELSE Insert(Head(s), Ascending(Tail(s)))

Unsorted(s) == s

sort_unstable(s) == Ascending(s)

MidLower(k) == (k - 1) \div 2

Mid(k) == k \div 2

FewerThanTwoFrames(fs) == Len(fs) <= 1

NoFrames(fs) == fs = <<>>

DimsDiffer(f, w, h) == f.width # w \/ f.height # h

MedianPixel(fs, idx) ==
  LET k == Len(fs)
      rbuf == sort_unstable([i \in 1..k |-> R(fs[i].pixels[idx])])
      gbuf == sort_unstable([i \in 1..k |-> G(fs[i].pixels[idx])])
      bbuf == sort_unstable([i \in 1..k |-> B(fs[i].pixels[idx])])
      mid == Mid(k)
  IN  Pack(rbuf[mid + 1], gbuf[mid + 1], bbuf[mid + 1])

median_background(fs) ==
  IF NoFrames(fs) THEN [res |-> Err("median_background: no frames"), frame |-> NoFrame]
  ELSE LET w == fs[1].width
           h == fs[1].height
       IN  IF \E i \in 1..Len(fs) : DimsDiffer(fs[i], w, h)
           THEN [res |-> Err("median_background: frames must share identical dimensions"),
                 frame |-> NoFrame]
           ELSE [res |-> Ok,
                 frame |-> FrameBuffer(w, h, [idx \in 1..(w * h) |-> MedianPixel(fs, idx)])]

----------------------------------------------------------------------------
(* vision.rs: box_blur_rgb.  A line is one row of src or one column of     *)
(* tmp; positions are 0-based as in the code, sequences 1-based.           *)

PrimeSumNoEdge(c, line, r) ==
  Chan(c, line[1])
    + SumSeq([x \in 1..r |-> Chan(c, line[Min(x, Len(line) - 1) + 1])])

PrimeSum(c, line, r) ==
  Chan(c, line[1]) * (r + 1)
    + SumSeq([x \in 1..r |-> Chan(c, line[Min(x, Len(line) - 1) + 1])])

LeftX(x, r) == Max(x - r, 0)

RightXWrapping(x, r, n) == (x + r + 1) % n

RightX(x, r, n) == Min(x + r + 1, n - 1)

RECURSIVE WindowSum(_, _, _, _)
WindowSum(c, line, r, x) ==
  IF x = 0 THEN PrimeSum(c, line, r)
  ELSE WindowSum(c, line, r, x - 1)
         + Chan(c, line[RightX(x - 1, r, Len(line)) + 1])
         - Chan(c, line[LeftX(x - 1, r) + 1])

Win(r) == 2 * r + 1

BlurLine(line, r) ==
  [x \in 1..Len(line) |->
     Pack(WindowSum("r", line, r, x - 1) \div Win(r),
          WindowSum("g", line, r, x - 1) \div Win(r),
          WindowSum("b", line, r, x - 1) \div Win(r))]

Row(fb, y) == [x \in 1..fb.width |-> fb.pixels[y * fb.width + x]]
Col(fb, x) == [y \in 1..fb.height |-> fb.pixels[(y - 1) * fb.width + x + 1]]

HorizontalPass(src, r) ==
  [i \in 1..(src.width * src.height) |->
     BlurLine(Row(src, (i - 1) \div src.width), r)[((i - 1) % src.width) + 1]]

VerticalPass(tmp, r) ==
  [i \in 1..(tmp.width * tmp.height) |->
     BlurLine(Col(tmp, (i - 1) % tmp.width), r)[((i - 1) \div tmp.width) + 1]]

BlurSizeMismatch(src, tmp, dst) ==
  IF src.width # dst.width \/ src.height # dst.height THEN "box_blur: size mismatch src<->dst"
  ELSE IF tmp.width # src.width \/ tmp.height # src.height THEN "box_blur: size mismatch tmp"
  ELSE ""

box_blur_rgb_late_check(src, tmp, dst, radius) ==
  IF tmp.width # src.width \/ tmp.height # src.height
  THEN [res |-> Err("box_blur: size mismatch tmp"), tmp |-> tmp, dst |-> dst]
  ELSE LET t == [tmp EXCEPT !.pixels = HorizontalPass(src, radius)]
       IN  IF src.width # dst.width \/ src.height # dst.height
           THEN [res |-> Err("box_blur: size mismatch src<->dst"), tmp |-> t, dst |-> dst]
           ELSE [res |-> Ok, tmp |-> t, dst |-> [dst EXCEPT !.pixels = VerticalPass(t, radius)]]

box_blur_rgb(src, tmp, dst, radius) ==
  IF BlurSizeMismatch(src, tmp, dst) # ""
  THEN [res |-> Err(BlurSizeMismatch(src, tmp, dst)), tmp |-> tmp, dst |-> dst]
  ELSE LET t == [tmp EXCEPT !.pixels = HorizontalPass(src, radius)]
       IN  [res |-> Ok, tmp |-> t, dst |-> [dst EXCEPT !.pixels = VerticalPass(t, radius)]]

----------------------------------------------------------------------------
(* f32 arithmetic on the fixed-point grid.  FOne is 1.0; NaN compares      *)
(* false with everything and absorbs every sum, product and quotient.      *)
(* Tiny is a non-zero f32 far below the grid (a dt of 1e-30, say): a       *)
(* product with it is as small, and added to or taken from any other       *)
(* non-zero value it is rounded away.                                      *)

FOne == 32768
NaN == 1073741824
Tiny == 1073741825

IsNaN(a) == a = NaN
IsTiny(a) == a = Tiny
FAdd(a, b) ==
  IF IsNaN(a) \/ IsNaN(b) THEN NaN
  ELSE IF IsTiny(a) THEN (IF b = 0 THEN Tiny ELSE b)
  ELSE IF IsTiny(b) THEN (IF a = 0 THEN Tiny ELSE a)
  ELSE a + b
FSub(a, b) ==
  IF IsNaN(a) \/ IsNaN(b) THEN NaN
  ELSE IF IsTiny(b) THEN (IF a = 0 THEN Tiny ELSE a)
  ELSE IF IsTiny(a) THEN (IF b = 0 THEN Tiny ELSE 0 - b)
  ELSE a - b
FMul(a, b) ==
  IF IsNaN(a) \/ IsNaN(b) THEN NaN
  ELSE IF IsTiny(a) \/ IsTiny(b) THEN (IF a = 0 \/ b = 0 THEN 0 ELSE Tiny)
  ELSE (a \div FOne) * (b \div FOne) * FOne + (a \div FOne) * (b % FOne)
       + (a % FOne) * (b \div FOne) + ((a % FOne) * (b % FOne) + FOne \div 2) \div FOne
FDiv(a, b) ==
  IF IsNaN(a) \/ IsNaN(b) THEN NaN
  ELSE IF b % FOne = 0 THEN (a + (b \div FOne) \div 2) \div (b \div FOne)
  ELSE (a * FOne + b \div 2) \div b
FGt(a, b) == ~IsNaN(a) /\ ~IsNaN(b) /\ a > b
FGe(a, b) == ~IsNaN(a) /\ ~IsNaN(b) /\ a >= b
FLe(a, b) == ~IsNaN(a) /\ ~IsNaN(b) /\ a <= b

----------------------------------------------------------------------------
(* gamma.rs: GammaLut.  The two tables GammaLut::new builds, the first in  *)
(* steps of 1/FOne, the second as the bytes it holds.                      *)

SrgbToLinearTable ==
  <<
    0, 10, 20, 30, 40, 50, 60, 70, 80, 90, 99, 110, 120, 132, 144, 157,
    170, 184, 198, 213, 229, 246, 263, 281, 299, 319, 338, 359, 381, 403, 425, 449,
    473, 498, 524, 551, 578, 606, 635, 665, 695, 727, 759, 792, 825, 860, 895, 931,
    969, 1006, 1045, 1085, 1125, 1167, 1209, 1252, 1296, 1341, 1386, 1433, 1481, 1529, 1578, 1629,
    1680, 1732, 1785, 1839, 1894, 1950, 2007, 2065, 2123, 2183, 2244, 2306, 2368, 2432, 2496, 2562,
    2629, 2696, 2765, 2834, 2905, 2977, 3049, 3123, 3198, 3273, 3350, 3428, 3507, 3587, 3668, 3750,
    3833, 3917, 4002, 4089, 4176, 4264, 4354, 4444, 4536, 4629, 4723, 4818, 4914, 5011, 5109, 5209,
    5309, 5411, 5514, 5618, 5723, 5829, 5936, 6045, 6155, 6265, 6377, 6490, 6605, 6720, 6837, 6954,
    7073, 7193, 7315, 7437, 7561, 7686, 7812, 7939, 8068, 8197, 8328, 8460, 8593, 8728, 8864, 9001,
    9139, 9278, 9419, 9561, 9704, 9848, 9994, 10141, 10289, 10438, 10589, 10741, 10894, 11048, 11204, 11361,
    11519, 11679, 11839, 12001, 12165, 12329, 12495, 12663, 12831, 13001, 13172, 13344, 13518, 13693, 13870, 14047,
    14226, 14407, 14588, 14771, 14956, 15141, 15328, 15517, 15706, 15897, 16090, 16284, 16479, 16675, 16873, 17072,
    17273, 17474, 17678, 17882, 18088, 18296, 18504, 18715, 18926, 19139, 19353, 19569, 19786, 20005, 20225, 20446,
    20669, 20893, 21118, 21345, 21574, 21803, 22035, 22267, 22501, 22737, 22974, 23212, 23452, 23693, 23936, 24180,
    24425, 24672, 24921, 25171, 25422, 25675, 25929, 26185, 26442, 26701, 26961, 27223, 27486, 27750, 28016, 28284,
    28553, 28823, 29095, 29369, 29644, 29920, 30198, 30478, 30759, 31041, 31325, 31611, 31898, 32186, 32476, 32768
  >>

LinearToSrgbTable ==
  <<
    0, 1, 2, 2, 3, 4, 5, 6, 6, 7, 8, 9, 10, 10, 11, 12, 13, 13, 14, 15, 15, 16, 16, 17, 18, 18, 19, 19, 20, 20, 21, 21,
    22, 22, 23, 23, 23, 24, 24, 25, 25, 25, 26, 26, 27, 27, 27, 28, 28, 29, 29, 29, 30, 30, 30, 31, 31, 31, 32, 32, 32, 33, 33, 33,
    34, 34, 34, 34, 35, 35, 35, 36, 36, 36, 37, 37, 37, 37, 38, 38, 38, 38, 39, 39, 39, 40, 40, 40, 40, 41, 41, 41, 41, 42, 42, 42,
    42, 43, 43, 43, 43, 43, 44, 44, 44, 44, 45, 45, 45, 45, 46, 46, 46, 46, 46, 47, 47, 47, 47, 48, 48, 48, 48, 48, 49, 49, 49, 49,
    49, 50, 50, 50, 50, 50, 51, 51, 51, 51, 51, 52, 52, 52, 52, 52, 53, 53, 53, 53, 53, 54, 54, 54, 54, 54, 55, 55, 55, 55, 55, 55,
    56, 56, 56, 56, 56, 57, 57, 57, 57, 57, 57, 58, 58, 58, 58, 58, 58, 59, 59, 59, 59, 59, 59, 60, 60, 60, 60, 60, 60, 61, 61, 61,
    61, 61, 61, 62, 62, 62, 62, 62, 62, 63, 63, 63, 63, 63, 63, 64, 64, 64, 64, 64, 64, 64, 65, 65, 65, 65, 65, 65, 66, 66, 66, 66,
    66, 66, 66, 67, 67, 67, 67, 67, 67, 67, 68, 68, 68, 68, 68, 68, 68, 69, 69, 69, 69, 69, 69, 69, 70, 70, 70, 70, 70, 70, 70, 71,
    71, 71, 71, 71, 71, 71, 72, 72, 72, 72, 72, 72, 72, 72, 73, 73, 73, 73, 73, 73, 73, 74, 74, 74, 74, 74, 74, 74, 74, 75, 75, 75,
    75, 75, 75, 75, 75, 76, 76, 76, 76, 76, 76, 76, 77, 77, 77, 77, 77, 77, 77, 77, 78, 78, 78, 78, 78, 78, 78, 78, 78, 79, 79, 79,
    79, 79, 79, 79, 79, 80, 80, 80, 80, 80, 80, 80, 80, 81, 81, 81, 81, 81, 81, 81, 81, 81, 82, 82, 82, 82, 82, 82, 82, 82, 83, 83,
    83, 83, 83, 83, 83, 83, 83, 84, 84, 84, 84, 84, 84, 84, 84, 84, 85, 85, 85, 85, 85, 85, 85, 85, 85, 86, 86, 86, 86, 86, 86, 86,
    86, 86, 87, 87, 87, 87, 87, 87, 87, 87, 87, 88, 88, 88, 88, 88, 88, 88, 88, 88, 88, 89, 89, 89, 89, 89, 89, 89, 89, 89, 90, 90,
    90, 90, 90, 90, 90, 90, 90, 90, 91, 91, 91, 91, 91, 91, 91, 91, 91, 91, 92, 92, 92, 92, 92, 92, 92, 92, 92, 92, 93, 93, 93, 93,
    93, 93, 93, 93, 93, 93, 94, 94, 94, 94, 94, 94, 94, 94, 94, 94, 95, 95, 95, 95, 95, 95, 95, 95, 95, 95, 96, 96, 96, 96, 96, 96,
    96, 96, 96, 96, 96, 97, 97, 97, 97, 97, 97, 97, 97, 97, 97, 98, 98, 98, 98, 98, 98, 98, 98, 98, 98, 98, 99, 99, 99, 99, 99, 99,
    99, 99, 99, 99, 99, 100, 100, 100, 100, 100, 100, 100, 100, 100, 100, 100, 101, 101, 101, 101, 101, 101, 101, 101, 101, 101, 101, 102, 102, 102, 102, 102,
    102, 102, 102, 102, 102, 102, 103, 103, 103, 103, 103, 103, 103, 103, 103, 103, 103, 103, 104, 104, 104, 104, 104, 104, 104, 104, 104, 104, 104, 105, 105, 105,
    105, 105, 105, 105, 105, 105, 105, 105, 105, 106, 106, 106, 106, 106, 106, 106, 106, 106, 106, 106, 106, 107, 107, 107, 107, 107, 107, 107, 107, 107, 107, 107,
    107, 108, 108, 108, 108, 108, 108, 108, 108, 108, 108, 108, 108, 109, 109, 109, 109, 109, 109, 109, 109, 109, 109, 109, 109, 110, 110, 110, 110, 110, 110, 110,
    110, 110, 110, 110, 110, 111, 111, 111, 111, 111, 111, 111, 111, 111, 111, 111, 111, 111, 112, 112, 112, 112, 112, 112, 112, 112, 112, 112, 112, 112, 113, 113,
    113, 113, 113, 113, 113, 113, 113, 113, 113, 113, 113, 114, 114, 114, 114, 114, 114, 114, 114, 114, 114, 114, 114, 114, 115, 115, 115, 115, 115, 115, 115, 115,
    115, 115, 115, 115, 115, 116, 116, 116, 116, 116, 116, 116, 116, 116, 116, 116, 116, 116, 117, 117, 117, 117, 117, 117, 117, 117, 117, 117, 117, 117, 117, 117,
    118, 118, 118, 118, 118, 118, 118, 118, 118, 118, 118, 118, 118, 119, 119, 119, 119, 119, 119, 119, 119, 119, 119, 119, 119, 119, 119, 120, 120, 120, 120, 120,
    120, 120, 120, 120, 120, 120, 120, 120, 120, 121, 121, 121, 121, 121, 121, 121, 121, 121, 121, 121, 121, 121, 122, 122, 122, 122, 122, 122, 122, 122, 122, 122,
    122, 122, 122, 122, 122, 123, 123, 123, 123, 123, 123, 123, 123, 123, 123, 123, 123, 123, 123, 124, 124, 124, 124, 124, 124, 124, 124, 124, 124, 124, 124, 124,
    124, 125, 125, 125, 125, 125, 125, 125, 125, 125, 125, 125, 125, 125, 125, 125, 126, 126, 126, 126, 126, 126, 126, 126, 126, 126, 126, 126, 126, 126, 127, 127,
    127, 127, 127, 127, 127, 127, 127, 127, 127, 127, 127, 127, 127, 128, 128, 128, 128, 128, 128, 128, 128, 128, 128, 128, 128, 128, 128, 128, 129, 129, 129, 129,
    129, 129, 129, 129, 129, 129, 129, 129, 129, 129, 129, 130, 130, 130, 130, 130, 130, 130, 130, 130, 130, 130, 130, 130, 130, 130, 131, 131, 131, 131, 131, 131,
    131, 131, 131, 131, 131, 131, 131, 131, 131, 131, 132, 132, 132, 132, 132, 132, 132, 132, 132, 132, 132, 132, 132, 132, 132, 133, 133, 133, 133, 133, 133, 133,
    133, 133, 133, 133, 133, 133, 133, 133, 133, 134, 134, 134, 134, 134, 134, 134, 134, 134, 134, 134, 134, 134, 134, 134, 134, 135, 135, 135, 135, 135, 135, 135,
    135, 135, 135, 135, 135, 135, 135, 135, 135, 136, 136, 136, 136, 136, 136, 136, 136, 136, 136, 136, 136, 136, 136, 136, 136, 137, 137, 137, 137, 137, 137, 137,
    137, 137, 137, 137, 137, 137, 137, 137, 137, 138, 138, 138, 138, 138, 138, 138, 138, 138, 138, 138, 138, 138, 138, 138, 138, 139, 139, 139, 139, 139, 139, 139,
    139, 139, 139, 139, 139, 139, 139, 139, 139, 139, 140, 140, 140, 140, 140, 140, 140, 140, 140, 140, 140, 140, 140, 140, 140, 140, 140, 141, 141, 141, 141, 141,
    141, 141, 141, 141, 141, 141, 141, 141, 141, 141, 141, 141, 142, 142, 142, 142, 142, 142, 142, 142, 142, 142, 142, 142, 142, 142, 142, 142, 142, 143, 143, 143,
    143, 143, 143, 143, 143, 143, 143, 143, 143, 143, 143, 143, 143, 143, 144, 144, 144, 144, 144, 144, 144, 144, 144, 144, 144, 144, 144, 144, 144, 144, 144, 145,
    145, 145, 145, 145, 145, 145, 145, 145, 145, 145, 145, 145, 145, 145, 145, 145, 145, 146, 146, 146, 146, 146, 146, 146, 146, 146, 146, 146, 146, 146, 146, 146,
    146, 146, 147, 147, 147, 147, 147, 147, 147, 147, 147, 147, 147, 147, 147, 147, 147, 147, 147, 147, 148, 148, 148, 148, 148, 148, 148, 148, 148, 148, 148, 148,
    148, 148, 148, 148, 148, 148, 149, 149, 149, 149, 149, 149, 149, 149, 149, 149, 149, 149, 149, 149, 149, 149, 149, 149, 150, 150, 150, 150, 150, 150, 150, 150,
    150, 150, 150, 150, 150, 150, 150, 150, 150, 150, 150, 151, 151, 151, 151, 151, 151, 151, 151, 151, 151, 151, 151, 151, 151, 151, 151, 151, 151, 152, 152, 152,
    152, 152, 152, 152, 152, 152, 152, 152, 152, 152, 152, 152, 152, 152, 152, 152, 153, 153, 153, 153, 153, 153, 153, 153, 153, 153, 153, 153, 153, 153, 153, 153,
    153, 153, 154, 154, 154, 154, 154, 154, 154, 154, 154, 154, 154, 154, 154, 154, 154, 154, 154, 154, 154, 155, 155, 155, 155, 155, 155, 155, 155, 155, 155, 155,
    155, 155, 155, 155, 155, 155, 155, 155, 156, 156, 156, 156, 156, 156, 156, 156, 156, 156, 156, 156, 156, 156, 156, 156, 156, 156, 156, 156, 157, 157, 157, 157,
    157, 157, 157, 157, 157, 157, 157, 157, 157, 157, 157, 157, 157, 157, 157, 158, 158, 158, 158, 158, 158, 158, 158, 158, 158, 158, 158, 158, 158, 158, 158, 158,
    158, 158, 159, 159, 159, 159, 159, 159, 159, 159, 159, 159, 159, 159, 159, 159, 159, 159, 159, 159, 159, 159, 160, 160, 160, 160, 160, 160, 160, 160, 160, 160,
    160, 160, 160, 160, 160, 160, 160, 160, 160, 160, 161, 161, 161, 161, 161, 161, 161, 161, 161, 161, 161, 161, 161, 161, 161, 161, 161, 161, 161, 161, 162, 162,
    162, 162, 162, 162, 162, 162, 162, 162, 162, 162, 162, 162, 162, 162, 162, 162, 162, 162, 163, 163, 163, 163, 163, 163, 163, 163, 163, 163, 163, 163, 163, 163,
    163, 163, 163, 163, 163, 163, 164, 164, 164, 164, 164, 164, 164, 164, 164, 164, 164, 164, 164, 164, 164, 164, 164, 164, 164, 164, 164, 165, 165, 165, 165, 165,
    165, 165, 165, 165, 165, 165, 165, 165, 165, 165, 165, 165, 165, 165, 165, 165, 166, 166, 166, 166, 166, 166, 166, 166, 166, 166, 166, 166, 166, 166, 166, 166,
    166, 166, 166, 166, 167, 167, 167, 167, 167, 167, 167, 167, 167, 167, 167, 167, 167, 167, 167, 167, 167, 167, 167, 167, 167, 168, 168, 168, 168, 168, 168, 168,
    168, 168, 168, 168, 168, 168, 168, 168, 168, 168, 168, 168, 168, 168, 168, 169, 169, 169, 169, 169, 169, 169, 169, 169, 169, 169, 169, 169, 169, 169, 169, 169,
    169, 169, 169, 169, 170, 170, 170, 170, 170, 170, 170, 170, 170, 170, 170, 170, 170, 170, 170, 170, 170, 170, 170, 170, 170, 171, 171, 171, 171, 171, 171, 171,
    171, 171, 171, 171, 171, 171, 171, 171, 171, 171, 171, 171, 171, 171, 171, 172, 172, 172, 172, 172, 172, 172, 172, 172, 172, 172, 172, 172, 172, 172, 172, 172,
    172, 172, 172, 172, 172, 173, 173, 173, 173, 173, 173, 173, 173, 173, 173, 173, 173, 173, 173, 173, 173, 173, 173, 173, 173, 173, 173, 174, 174, 174, 174, 174,
    174, 174, 174, 174, 174, 174, 174, 174, 174, 174, 174, 174, 174, 174, 174, 174, 174, 175, 175, 175, 175, 175, 175, 175, 175, 175, 175, 175, 175, 175, 175, 175,
    175, 175, 175, 175, 175, 175, 175, 176, 176, 176, 176, 176, 176, 176, 176, 176, 176, 176, 176, 176, 176, 176, 176, 176, 176, 176, 176, 176, 176, 176, 177, 177,
    177, 177, 177, 177, 177, 177, 177, 177, 177, 177, 177, 177, 177, 177, 177, 177, 177, 177, 177, 177, 178, 178, 178, 178, 178, 178, 178, 178, 178, 178, 178, 178,
    178, 178, 178, 178, 178, 178, 178, 178, 178, 178, 178, 179, 179, 179, 179, 179, 179, 179, 179, 179, 179, 179, 179, 179, 179, 179, 179, 179, 179, 179, 179, 179,
    179, 179, 180, 180, 180, 180, 180, 180, 180, 180, 180, 180, 180, 180, 180, 180, 180, 180, 180, 180, 180, 180, 180, 180, 180, 181, 181, 181, 181, 181, 181, 181,
    181, 181, 181, 181, 181, 181, 181, 181, 181, 181, 181, 181, 181, 181, 181, 181, 182, 182, 182, 182, 182, 182, 182, 182, 182, 182, 182, 182, 182, 182, 182, 182,
    182, 182, 182, 182, 182, 182, 182, 182, 183, 183, 183, 183, 183, 183, 183, 183, 183, 183, 183, 183, 183, 183, 183, 183, 183, 183, 183, 183, 183, 183, 183, 184,
    184, 184, 184, 184, 184, 184, 184, 184, 184, 184, 184, 184, 184, 184, 184, 184, 184, 184, 184, 184, 184, 184, 184, 185, 185, 185, 185, 185, 185, 185, 185, 185,
    185, 185, 185, 185, 185, 185, 185, 185, 185, 185, 185, 185, 185, 185, 185, 186, 186, 186, 186, 186, 186, 186, 186, 186, 186, 186, 186, 186, 186, 186, 186, 186,
    186, 186, 186, 186, 186, 186, 186, 187, 187, 187, 187, 187, 187, 187, 187, 187, 187, 187, 187, 187, 187, 187, 187, 187, 187, 187, 187, 187, 187, 187, 187, 187,
    188, 188, 188, 188, 188, 188, 188, 188, 188, 188, 188, 188, 188, 188, 188, 188, 188, 188, 188, 188, 188, 188, 188, 188, 189, 189, 189, 189, 189, 189, 189, 189,
    189, 189, 189, 189, 189, 189, 189, 189, 189, 189, 189, 189, 189, 189, 189, 189, 189, 190, 190, 190, 190, 190, 190, 190, 190, 190, 190, 190, 190, 190, 190, 190,
    190, 190, 190, 190, 190, 190, 190, 190, 190, 190, 191, 191, 191, 191, 191, 191, 191, 191, 191, 191, 191, 191, 191, 191, 191, 191, 191, 191, 191, 191, 191, 191,
    191, 191, 192, 192, 192, 192, 192, 192, 192, 192, 192, 192, 192, 192, 192, 192, 192, 192, 192, 192, 192, 192, 192, 192, 192, 192, 192, 192, 193, 193, 193, 193,
    193, 193, 193, 193, 193, 193, 193, 193, 193, 193, 193, 193, 193, 193, 193, 193, 193, 193, 193, 193, 193, 194, 194, 194, 194, 194, 194, 194, 194, 194, 194, 194,
    194, 194, 194, 194, 194, 194, 194, 194, 194, 194, 194, 194, 194, 194, 195, 195, 195, 195, 195, 195, 195, 195, 195, 195, 195, 195, 195, 195, 195, 195, 195, 195,
    195, 195, 195, 195, 195, 195, 195, 195, 196, 196, 196, 196, 196, 196, 196, 196, 196, 196, 196, 196, 196, 196, 196, 196, 196, 196, 196, 196, 196, 196, 196, 196,
    196, 196, 197, 197, 197, 197, 197, 197, 197, 197, 197, 197, 197, 197, 197, 197, 197, 197, 197, 197, 197, 197, 197, 197, 197, 197, 197, 197, 198, 198, 198, 198,
    198, 198, 198, 198, 198, 198, 198, 198, 198, 198, 198, 198, 198, 198, 198, 198, 198, 198, 198, 198, 198, 198, 199, 199, 199, 199, 199, 199, 199, 199, 199, 199,
    199, 199, 199, 199, 199, 199, 199, 199, 199, 199, 199, 199, 199, 199, 199, 199, 200, 200, 200, 200, 200, 200, 200, 200, 200, 200, 200, 200, 200, 200, 200, 200,
    200, 200, 200, 200, 200, 200, 200, 200, 200, 200, 200, 201, 201, 201, 201, 201, 201, 201, 201, 201, 201, 201, 201, 201, 201, 201, 201, 201, 201, 201, 201, 201,
    201, 201, 201, 201, 201, 201, 202, 202, 202, 202, 202, 202, 202, 202, 202, 202, 202, 202, 202, 202, 202, 202, 202, 202, 202, 202, 202, 202, 202, 202, 202, 202,
    202, 203, 203, 203, 203, 203, 203, 203, 203, 203, 203, 203, 203, 203, 203, 203, 203, 203, 203, 203, 203, 203, 203, 203, 203, 203, 203, 203, 204, 204, 204, 204,
    204, 204, 204, 204, 204, 204, 204, 204, 204, 204, 204, 204, 204, 204, 204, 204, 204, 204, 204, 204, 204, 204, 204, 205, 205, 205, 205, 205, 205, 205, 205, 205,
    205, 205, 205, 205, 205, 205, 205, 205, 205, 205, 205, 205, 205, 205, 205, 205, 205, 205, 206, 206, 206, 206, 206, 206, 206, 206, 206, 206, 206, 206, 206, 206,
    206, 206, 206, 206, 206, 206, 206, 206, 206, 206, 206, 206, 206, 206, 207, 207, 207, 207, 207, 207, 207, 207, 207, 207, 207, 207, 207, 207, 207, 207, 207, 207,
    207, 207, 207, 207, 207, 207, 207, 207, 207, 207, 208, 208, 208, 208, 208, 208, 208, 208, 208, 208, 208, 208, 208, 208, 208, 208, 208, 208, 208, 208, 208, 208,
    208, 208, 208, 208, 208, 209, 209, 209, 209, 209, 209, 209, 209, 209, 209, 209, 209, 209, 209, 209, 209, 209, 209, 209, 209, 209, 209, 209, 209, 209, 209, 209,
    209, 209, 210, 210, 210, 210, 210, 210, 210, 210, 210, 210, 210, 210, 210, 210, 210, 210, 210, 210, 210, 210, 210, 210, 210, 210, 210, 210, 210, 210, 211, 211,
    211, 211, 211, 211, 211, 211, 211, 211, 211, 211, 211, 211, 211, 211, 211, 211, 211, 211, 211, 211, 211, 211, 211, 211, 211, 211, 212, 212, 212, 212, 212, 212,
    212, 212, 212, 212, 212, 212, 212, 212, 212, 212, 212, 212, 212, 212, 212, 212, 212, 212, 212, 212, 212, 212, 212, 213, 213, 213, 213, 213, 213, 213, 213, 213,
    213, 213, 213, 213, 213, 213, 213, 213, 213, 213, 213, 213, 213, 213, 213, 213, 213, 213, 213, 213, 214, 214, 214, 214, 214, 214, 214, 214, 214, 214, 214, 214,
    214, 214, 214, 214, 214, 214, 214, 214, 214, 214, 214, 214, 214, 214, 214, 214, 214, 215, 215, 215, 215, 215, 215, 215, 215, 215, 215, 215, 215, 215, 215, 215,
    215, 215, 215, 215, 215, 215, 215, 215, 215, 215, 215, 215, 215, 215, 216, 216, 216, 216, 216, 216, 216, 216, 216, 216, 216, 216, 216, 216, 216, 216, 216, 216,
    216, 216, 216, 216, 216, 216, 216, 216, 216, 216, 216, 217, 217, 217, 217, 217, 217, 217, 217, 217, 217, 217, 217, 217, 217, 217, 217, 217, 217, 217, 217, 217,
    217, 217, 217, 217, 217, 217, 217, 217, 217, 218, 218, 218, 218, 218, 218, 218, 218, 218, 218, 218, 218, 218, 218, 218, 218, 218, 218, 218, 218, 218, 218, 218,
    218, 218, 218, 218, 218, 218, 219, 219, 219, 219, 219, 219, 219, 219, 219, 219, 219, 219, 219, 219, 219, 219, 219, 219, 219, 219, 219, 219, 219, 219, 219, 219,
    219, 219, 219, 219, 220, 220, 220, 220, 220, 220, 220, 220, 220, 220, 220, 220, 220, 220, 220, 220, 220, 220, 220, 220, 220, 220, 220, 220, 220, 220, 220, 220,
    220, 220, 221, 221, 221, 221, 221, 221, 221, 221, 221, 221, 221, 221, 221, 221, 221, 221, 221, 221, 221, 221, 221, 221, 221, 221, 221, 221, 221, 221, 221, 221,
    221, 222, 222, 222, 222, 222, 222, 222, 222, 222, 222, 222, 222, 222, 222, 222, 222, 222, 222, 222, 222, 222, 222, 222, 222, 222, 222, 222, 222, 222, 222, 223,
    223, 223, 223, 223, 223, 223, 223, 223, 223, 223, 223, 223, 223, 223, 223, 223, 223, 223, 223, 223, 223, 223, 223, 223, 223, 223, 223, 223, 223, 223, 224, 224,
    224, 224, 224, 224, 224, 224, 224, 224, 224, 224, 224, 224, 224, 224, 224, 224, 224, 224, 224, 224, 224, 224, 224, 224, 224, 224, 224, 224, 225, 225, 225, 225,
    225, 225, 225, 225, 225, 225, 225, 225, 225, 225, 225, 225, 225, 225, 225, 225, 225, 225, 225, 225, 225, 225, 225, 225, 225, 225, 225, 226, 226, 226, 226, 226,
    226, 226, 226, 226, 226, 226, 226, 226, 226, 226, 226, 226, 226, 226, 226, 226, 226, 226, 226, 226, 226, 226, 226, 226, 226, 226, 227, 227, 227, 227, 227, 227,
    227, 227, 227, 227, 227, 227, 227, 227, 227, 227, 227, 227, 227, 227, 227, 227, 227, 227, 227, 227, 227, 227, 227, 227, 227, 227, 228, 228, 228, 228, 228, 228,
    228, 228, 228, 228, 228, 228, 228, 228, 228, 228, 228, 228, 228, 228, 228, 228, 228, 228, 228, 228, 228, 228, 228, 228, 228, 229, 229, 229, 229, 229, 229, 229,
    229, 229, 229, 229, 229, 229, 229, 229, 229, 229, 229, 229, 229, 229, 229, 229, 229, 229, 229, 229, 229, 229, 229, 229, 229, 230, 230, 230, 230, 230, 230, 230,
    230, 230, 230, 230, 230, 230, 230, 230, 230, 230, 230, 230, 230, 230, 230, 230, 230, 230, 230, 230, 230, 230, 230, 230, 230, 231, 231, 231, 231, 231, 231, 231,
    231, 231, 231, 231, 231, 231, 231, 231, 231, 231, 231, 231, 231, 231, 231, 231, 231, 231, 231, 231, 231, 231, 231, 231, 231, 232, 232, 232, 232, 232, 232, 232,
    232, 232, 232, 232, 232, 232, 232, 232, 232, 232, 232, 232, 232, 232, 232, 232, 232, 232, 232, 232, 232, 232, 232, 232, 232, 233, 233, 233, 233, 233, 233, 233,
    233, 233, 233, 233, 233, 233, 233, 233, 233, 233, 233, 233, 233, 233, 233, 233, 233, 233, 233, 233, 233, 233, 233, 233, 233, 233, 234, 234, 234, 234, 234, 234,
    234, 234, 234, 234, 234, 234, 234, 234, 234, 234, 234, 234, 234, 234, 234, 234, 234, 234, 234, 234, 234, 234, 234, 234, 234, 234, 235, 235, 235, 235, 235, 235,
    235, 235, 235, 235, 235, 235, 235, 235, 235, 235, 235, 235, 235, 235, 235, 235, 235, 235, 235, 235, 235, 235, 235, 235, 235, 235, 235, 236, 236, 236, 236, 236,
    236, 236, 236, 236, 236, 236, 236, 236, 236, 236, 236, 236, 236, 236, 236, 236, 236, 236, 236, 236, 236, 236, 236, 236, 236, 236, 236, 236, 237, 237, 237, 237,
    237, 237, 237, 237, 237, 237, 237, 237, 237, 237, 237, 237, 237, 237, 237, 237, 237, 237, 237, 237, 237, 237, 237, 237, 237, 237, 237, 237, 237, 238, 238, 238,
    238, 238, 238, 238, 238, 238, 238, 238, 238, 238, 238, 238, 238, 238, 238, 238, 238, 238, 238, 238, 238, 238, 238, 238, 238, 238, 238, 238, 238, 238, 239, 239,
    239, 239, 239, 239, 239, 239, 239, 239, 239, 239, 239, 239, 239, 239, 239, 239, 239, 239, 239, 239, 239, 239, 239, 239, 239, 239, 239, 239, 239, 239, 239, 239,
    240, 240, 240, 240, 240, 240, 240, 240, 240, 240, 240, 240, 240, 240, 240, 240, 240, 240, 240, 240, 240, 240, 240, 240, 240, 240, 240, 240, 240, 240, 240, 240,
    240, 240, 241, 241, 241, 241, 241, 241, 241, 241, 241, 241, 241, 241, 241, 241, 241, 241, 241, 241, 241, 241, 241, 241, 241, 241, 241, 241, 241, 241, 241, 241,
    241, 241, 241, 241, 242, 242, 242, 242, 242, 242, 242, 242, 242, 242, 242, 242, 242, 242, 242, 242, 242, 242, 242, 242, 242, 242, 242, 242, 242, 242, 242, 242,
    242, 242, 242, 242, 242, 242, 243, 243, 243, 243, 243, 243, 243, 243, 243, 243, 243, 243, 243, 243, 243, 243, 243, 243, 243, 243, 243, 243, 243, 243, 243, 243,
    243, 243, 243, 243, 243, 243, 243, 243, 244, 244, 244, 244, 244, 244, 244, 244, 244, 244, 244, 244, 244, 244, 244, 244, 244, 244, 244, 244, 244, 244, 244, 244,
    244, 244, 244, 244, 244, 244, 244, 244, 244, 244, 245, 245, 245, 245, 245, 245, 245, 245, 245, 245, 245, 245, 245, 245, 245, 245, 245, 245, 245, 245, 245, 245,
    245, 245, 245, 245, 245, 245, 245, 245, 245, 245, 245, 245, 245, 246, 246, 246, 246, 246, 246, 246, 246, 246, 246, 246, 246, 246, 246, 246, 246, 246, 246, 246,
    246, 246, 246, 246, 246, 246, 246, 246, 246, 246, 246, 246, 246, 246, 246, 246, 247, 247, 247, 247, 247, 247, 247, 247, 247, 247, 247, 247, 247, 247, 247, 247,
    247, 247, 247, 247, 247, 247, 247, 247, 247, 247, 247, 247, 247, 247, 247, 247, 247, 247, 247, 248, 248, 248, 248, 248, 248, 248, 248, 248, 248, 248, 248, 248,
    248, 248, 248, 248, 248, 248, 248, 248, 248, 248, 248, 248, 248, 248, 248, 248, 248, 248, 248, 248, 248, 248, 249, 249, 249, 249, 249, 249, 249, 249, 249, 249,
    249, 249, 249, 249, 249, 249, 249, 249, 249, 249, 249, 249, 249, 249, 249, 249, 249, 249, 249, 249, 249, 249, 249, 249, 249, 250, 250, 250, 250, 250, 250, 250,
    250, 250, 250, 250, 250, 250, 250, 250, 250, 250, 250, 250, 250, 250, 250, 250, 250, 250, 250, 250, 250, 250, 250, 250, 250, 250, 250, 250, 250, 251, 251, 251,
    251, 251, 251, 251, 251, 251, 251, 251, 251, 251, 251, 251, 251, 251, 251, 251, 251, 251, 251, 251, 251, 251, 251, 251, 251, 251, 251, 251, 251, 251, 251, 251,
    251, 252, 252, 252, 252, 252, 252, 252, 252, 252, 252, 252, 252, 252, 252, 252, 252, 252, 252, 252, 252, 252, 252, 252, 252, 252, 252, 252, 252, 252, 252, 252,
    252, 252, 252, 252, 252, 253, 253, 253, 253, 253, 253, 253, 253, 253, 253, 253, 253, 253, 253, 253, 253, 253, 253, 253, 253, 253, 253, 253, 253, 253, 253, 253,
    253, 253, 253, 253, 253, 253, 253, 253, 253, 254, 254, 254, 254, 254, 254, 254, 254, 254, 254, 254, 254, 254, 254, 254, 254, 254, 254, 254, 254, 254, 254, 254,
    254, 254, 254, 254, 254, 254, 254, 254, 254, 254, 254, 254, 254, 255, 255, 255, 255, 255, 255, 255, 255, 255, 255, 255, 255, 255, 255, 255, 255, 255, 255, 255
  >>

srgb_u8_to_linear(v) == SrgbToLinearTable[v + 1]

QuantizeTruncating(l) ==
  IF IsNaN(l) THEN 0 ELSE (Max(0, Min(l, FOne)) * 4095) \div FOne

Quantize(l) ==
  IF IsNaN(l) THEN 0 ELSE (Max(0, Min(l, FOne)) * 4095 + FOne \div 2) \div FOne

linear_to_srgb_u8(l) == LinearToSrgbTable[Quantize(l) + 1]

----------------------------------------------------------------------------
(* vision.rs: blend_linear_in_place *)

BlendChannel(cf, cs, a) ==
  LET f_lin == srgb_u8_to_linear(cf)
      s_lin == srgb_u8_to_linear(cs)
      inv == FSub(FOne, a)
      lin == FAdd(FMul(a, s_lin), FMul(inv, f_lin))
  IN  linear_to_srgb_u8(lin)

KeepsLive(a) == FLe(a, 0)

TakesSink(a) == FGe(a, FOne)

BlendPixelSwapped(pf, ps, a) ==
  IF KeepsLive(a) THEN ps
  ELSE IF TakesSink(a) THEN pf
  ELSE Pack(BlendChannel(R(ps), R(pf), a),
            BlendChannel(G(ps), G(pf), a),
            BlendChannel(B(ps), B(pf), a))

BlendPixel(pf, ps, a) ==
  IF KeepsLive(a) THEN pf
  ELSE IF TakesSink(a) THEN ps
  ELSE Pack(BlendChannel(R(pf), R(ps), a),
            BlendChannel(G(pf), G(ps), a),
            BlendChannel(B(pf), B(ps), a))

BlendDimsMismatch(fg, sink, m) ==
  IF fg.width # sink.width \/ fg.height # sink.height THEN "blend: dimension mismatch"
  ELSE IF m.width # fg.width \/ m.height # fg.height THEN "blend: mask dimension mismatch"
  ELSE ""

blend_linear_in_place(fg, sink, m) ==
  IF BlendDimsMismatch(fg, sink, m) # ""
  THEN [res |-> Err(BlendDimsMismatch(fg, sink, m)), fg |-> fg]
  ELSE [res |-> Ok,
        fg |-> [fg EXCEPT !.pixels =
                  [i \in 1..(fg.width * fg.height) |->
                     BlendPixel(fg.pixels[i], sink.pixels[i], m.alpha[i])]]]

----------------------------------------------------------------------------
(* vision.rs: make_gaussian_stamp, dab_mask, clear_mask.  sigma is given   *)
(* in halves (sigma = 2 stands for 1.0), so -r2 / s2 with                  *)
(* s2 = 2 * sigma * sigma is -(4 * r2) / (sigma * sigma) halves.           *)

ExpNegHalves ==
  << 32768, 19875, 12055, 7312, 4435, 2690, 1631, 990, 600, 364, 221, 134, 81, 49, 30,
     18, 11, 7, 4, 2, 1, 1, 1 >>

Exp(negHalves) ==
  IF negHalves + 1 > Len(ExpNegHalves) THEN 0 ELSE ExpNegHalves[negHalves + 1]

GaussWeight(x, y, sigma) ==
  LET r2 == x * x + y * y
  IN  IF sigma = 0
      THEN (IF r2 = 0 THEN NaN ELSE 0)
      ELSE Exp((4 * r2) \div (sigma * sigma))

RECURSIVE MaxWeight(_)
MaxWeight(ws) ==
  IF ws = <<>> THEN 0
  ELSE LET maxw == MaxWeight(SubSeq(ws, 1, Len(ws) - 1))
           w == ws[Len(ws)]
       IN  IF FGt(w, maxw) THEN w ELSE maxw

make_gaussian_stamp(radius, sigma) ==
  LET d == 2 * radius + 1
      weights == [k \in 1..(d * d) |->
                    GaussWeight(((k - 1) % d) - radius, ((k - 1) \div d) - radius, sigma)]
      maxw == MaxWeight(weights)
  IN  Stamp(radius,
            IF FGt(maxw, 0) THEN [k \in 1..(d * d) |-> FDiv(weights[k], maxw)] ELSE weights)

Unsaturated(a) == a

Saturate(a) == IF FGt(a, FOne) THEN FOne ELSE a

OutOfMask(sx, sy, w, h) == sx < 0 \/ sy < 0 \/ sx >= w \/ sy >= h

(* i32 arithmetic of `cx + kx - r`: a build with overflow checks panics    *)
(* when a sum leaves the i32 range, a build without them wraps.            *)

I32Max == 2147483647
I32Min == (0 - I32Max) - 1

AddOverflows(a, b) == IF b >= 0 THEN a > I32Max - b ELSE a < I32Min - b

WrappingAdd(a, b) ==
  IF ~AddOverflows(a, b) THEN a + b
  ELSE IF b >= 0 THEN (((a - I32Max) - 1) + b) + I32Min
  ELSE (((a - I32Min) + 1) + b) + I32Max

ScreenCoord(c, k, r) == WrappingAdd(WrappingAdd(c, k), 0 - r)

ScreenCoordOverflows(c, k, r) ==
  AddOverflows(c, k) \/ AddOverflows(WrappingAdd(c, k), 0 - r)

DabCell(m, cx, cy, st, ky, kx) ==
  LET r == st.radius
      d == 2 * r + 1
      sx == ScreenCoord(cx, kx, r)
      sy == ScreenCoord(cy, ky, r)
      idx == sy * m.width + sx
      kidx == ky * d + kx
  IN  IF OutOfMask(sx, sy, m.width, m.height) THEN m
      ELSE [m EXCEPT !.alpha[idx + 1] = Saturate(FAdd(m.alpha[idx + 1], st.weights[kidx + 1]))]

RECURSIVE DabCells(_, _, _, _, _)
DabCells(m, cx, cy, st, n) ==
  IF n = 0 THEN m
  ELSE LET d == 2 * st.radius + 1
       IN  DabCell(DabCells(m, cx, cy, st, n - 1), cx, cy, st, (n - 1) \div d, (n - 1) % d)

(* The number of kernel cells dab_mask completes: all of them, or, with    *)
(* overflow checks, those before the first cell whose sx or sy overflows.  *)
CellsDone(cx, cy, r, checks) ==
  LET d == 2 * r + 1
      panics == { n \in 0..(d * d - 1) :
                    \/ ScreenCoordOverflows(cx, n % d, r)
                    \/ ScreenCoordOverflows(cy, n \div d, r) }
  IN  IF checks /\ panics # {}
      THEN CHOOSE n \in panics : \A k \in panics : n <= k
      ELSE d * d

dab_mask(m, cx, cy, st, checks) ==
  LET cells == (2 * st.radius + 1) * (2 * st.radius + 1)
      done == CellsDone(cx, cy, st.radius, checks)
  IN  [res |-> IF done < cells THEN Err("attempt to add with overflow") ELSE Ok,
       mask |-> DabCells(m, cx, cy, st, done)]

ClearWherePositive(m) ==
  [m EXCEPT !.alpha = [i \in DOMAIN m.alpha |-> IF FGt(m.alpha[i], 0) THEN 0 ELSE m.alpha[i]]]
clear_mask(m) == [m EXCEPT !.alpha = [i \in DOMAIN m.alpha |-> 0]]

----------------------------------------------------------------------------
(* fx.rs: Rng32.  The u32 state is its 32 bits, most significant first.    *)

Bit(n, i) == IF i = 1 THEN 0 ELSE (n \div (2 ^ (32 - i))) % 2
Word(f) == SubSeq(f, 1, 32)
Bits(n) == Word([i \in 1..32 |-> Bit(n, i)])
Xor(a, b) == Word([i \in 1..32 |-> (a[i] + b[i]) % 2])
Shl(a, n) == Word([i \in 1..32 |-> IF i + n <= 32 THEN a[i + n] ELSE 0])
Shr(a, n) == Word([i \in 1..32 |-> IF i - n >= 1 THEN a[i - n] ELSE 0])

RECURSIVE TopBits(_, _)
TopBits(a, n) == IF n = 0 THEN 0 ELSE 2 * TopBits(a, n - 1) + a[n]

Seed == 12245589

from_seed(seed) == [Bits(seed) EXCEPT ![32] = 1]

next_u32(state) ==
  LET x1 == Xor(state, Shl(state, 13))
      x2 == Xor(x1, Shr(x1, 17))
  IN  Xor(x2, Shl(x2, 5))

(* next_f32 is (x >> 8) / 2^24: the top 24 bits, counted in steps of 2^-24 *)
(* where the roll of maybe_spawn_bolt compares them, and brought to the    *)
(* fixed-point grid (its top 15 bits) where range computes with them.      *)
next_f32_bits(x) == TopBits(x, 24)
next_f32(x) == TopBits(x, 15)

(* range returns [rng, val]: the generator after the draw and the value.   *)
range(rng, min, max) ==
  LET x == next_u32(rng)
  IN  [rng |-> x, val |-> FAdd(min, FMul(FSub(max, min), next_f32(x)))]

(* The generator states a run of n draws passes through, the first being   *)
(* rng itself: the k-th draw is made from Stream(rng, n)[k].               *)
RECURSIVE Stream(_, _)
Stream(rng, n) ==
  IF n = 0 THEN <<rng>>
  ELSE IF n = 1 THEN <<rng, next_u32(rng)>>
  ELSE Then(Stream(rng, n \div 2),
            LAMBDA h : h \o Tail(Stream(h[Len(h)], n - n \div 2)))

----------------------------------------------------------------------------
(* fx.rs: add_rgb_saturating, DiscKernel.  KernelWeights holds the weights *)
(* DiscKernel::build computes for the radii 2..8 of Fx::new.               *)

U16(v) == v % 65536
U8(v) == v % 256

WrappingU16Sum(a, b) == U16(a + b)
SaturatingSum(a, b) == Min(U16(a + b), 255)
AddChannel(old, add) == SaturatingSum(old, add)

add_rgb_saturating(fb, x, y, r, g, b) ==
  IF x < 0 \/ y < 0 \/ x >= fb.width \/ y >= fb.height THEN fb
  ELSE LET idx == y * fb.width + x
           old == fb.pixels[idx + 1]
       IN  [fb EXCEPT !.pixels[idx + 1] =
              Pack(AddChannel(R(old), r), AddChannel(G(old), g), AddChannel(B(old), b))]

KernelWeights ==
  <<
   <<
     5, 21, 35, 21, 5, 21, 94, 155, 94, 21, 35, 155, 255, 155, 35, 21, 94,
     155, 94, 21, 5, 21, 35, 21, 5
   >>,
   <<
     5, 14, 28, 35, 28, 14, 5, 14, 43, 84, 105, 84, 43, 14, 28, 84, 164,
     204, 164, 84, 28, 35, 105, 204, 255, 204, 105, 35, 28, 84, 164, 204,
     164, 84, 28, 14, 43, 84, 105, 84, 43, 14, 5, 14, 28, 35, 28, 14, 5
   >>,
   <<
     5, 11, 21, 30, 35, 30, 21, 11, 5, 11, 27, 50, 73, 83, 73, 50, 27, 11,
     21, 50, 94, 136, 155, 136, 94, 50, 21, 30, 73, 136, 199, 225, 199,
     136, 73, 30, 35, 83, 155, 225, 255, 225, 155, 83, 35, 30, 73, 136,
     199, 225, 199, 136, 73, 30, 21, 50, 94, 136, 155, 136, 94, 50, 21, 11,
     27, 50, 73, 83, 73, 50, 27, 11, 5, 11, 21, 30, 35, 30, 21, 11, 5
   >>,
   <<
     5, 10, 17, 25, 32, 35, 32, 25, 17, 10, 5, 10, 20, 35, 51, 65, 71, 65,
     51, 35, 20, 10, 17, 35, 60, 90, 115, 124, 115, 90, 60, 35, 17, 25, 51,
     90, 134, 171, 185, 171, 134, 90, 51, 25, 32, 65, 115, 171, 217, 235,
     217, 171, 115, 65, 32, 35, 71, 124, 185, 235, 255, 235, 185, 124, 71,
     35, 32, 65, 115, 171, 217, 235, 217, 171, 115, 65, 32, 25, 51, 90,
     134, 171, 185, 171, 134, 90, 51, 25, 17, 35, 60, 90, 115, 124, 115,
     90, 60, 35, 17, 10, 20, 35, 51, 65, 71, 65, 51, 35, 20, 10, 5, 10, 17,
     25, 32, 35, 32, 25, 17, 10, 5
   >>,
   <<
     5, 9, 14, 21, 28, 33, 35, 33, 28, 21, 14, 9, 5, 9, 16, 26, 39, 51, 60,
     64, 60, 51, 39, 26, 16, 9, 14, 26, 43, 64, 84, 99, 105, 99, 84, 64,
     43, 26, 14, 21, 39, 64, 94, 124, 146, 155, 146, 124, 94, 64, 39, 21,
     28, 51, 84, 124, 164, 193, 204, 193, 164, 124, 84, 51, 28, 33, 60, 99,
     146, 193, 228, 241, 228, 193, 146, 99, 60, 33, 35, 64, 105, 155, 204,
     241, 255, 241, 204, 155, 105, 64, 35, 33, 60, 99, 146, 193, 228, 241,
     228, 193, 146, 99, 60, 33, 28, 51, 84, 124, 164, 193, 204, 193, 164,
     124, 84, 51, 28, 21, 39, 64, 94, 124, 146, 155, 146, 124, 94, 64, 39,
     21, 14, 26, 43, 64, 84, 99, 105, 99, 84, 64, 43, 26, 14, 9, 16, 26,
     39, 51, 60, 64, 60, 51, 39, 26, 16, 9, 5, 9, 14, 21, 28, 33, 35, 33,
     28, 21, 14, 9, 5
   >>,
   <<
     5, 8, 12, 18, 24, 29, 33, 35, 33, 29, 24, 18, 12, 8, 5, 8, 13, 21, 31,
     41, 50, 56, 59, 56, 50, 41, 31, 21, 13, 8, 12, 21, 33, 48, 64, 78, 88,
     92, 88, 78, 64, 48, 33, 21, 12, 18, 31, 48, 69, 92, 113, 127, 133,
     127, 113, 92, 69, 48, 31, 18, 24, 41, 64, 92, 122, 150, 170, 177, 170,
     150, 122, 92, 64, 41, 24, 29, 50, 78, 113, 150, 184, 208, 217, 208,
     184, 150, 113, 78, 50, 29, 33, 56, 88, 127, 170, 208, 235, 245, 235,
     208, 170, 127, 88, 56, 33, 35, 59, 92, 133, 177, 217, 245, 255, 245,
     217, 177, 133, 92, 59, 35, 33, 56, 88, 127, 170, 208, 235, 245, 235,
     208, 170, 127, 88, 56, 33, 29, 50, 78, 113, 150, 184, 208, 217, 208,
     184, 150, 113, 78, 50, 29, 24, 41, 64, 92, 122, 150, 170, 177, 170,
     150, 122, 92, 64, 41, 24, 18, 31, 48, 69, 92, 113, 127, 133, 127, 113,
     92, 69, 48, 31, 18, 12, 21, 33, 48, 64, 78, 88, 92, 88, 78, 64, 48,
     33, 21, 12, 8, 13, 21, 31, 41, 50, 56, 59, 56, 50, 41, 31, 21, 13, 8,
     5, 8, 12, 18, 24, 29, 33, 35, 33, 29, 24, 18, 12, 8, 5
   >>,
   <<
     5, 7, 11, 16, 21, 26, 30, 33, 35, 33, 30, 26, 21, 16, 11, 7, 5, 7, 12,
     18, 25, 33, 42, 49, 53, 55, 53, 49, 42, 33, 25, 18, 12, 7, 11, 18, 27,
     38, 50, 62, 73, 80, 83, 80, 73, 62, 50, 38, 27, 18, 11, 16, 25, 38,
     53, 71, 88, 103, 113, 117, 113, 103, 88, 71, 53, 38, 25, 16, 21, 33,
     50, 71, 94, 117, 136, 150, 155, 150, 136, 117, 94, 71, 50, 33, 21, 26,
     42, 62, 88, 117, 145, 170, 187, 192, 187, 170, 145, 117, 88, 62, 42,
     26, 30, 49, 73, 103, 136, 170, 199, 218, 225, 218, 199, 170, 136, 103,
     73, 49, 30, 33, 53, 80, 113, 150, 187, 218, 240, 247, 240, 218, 187,
     150, 113, 80, 53, 33, 35, 55, 83, 117, 155, 192, 225, 247, 255, 247,
     225, 192, 155, 117, 83, 55, 35, 33, 53, 80, 113, 150, 187, 218, 240,
     247, 240, 218, 187, 150, 113, 80, 53, 33, 30, 49, 73, 103, 136, 170,
     199, 218, 225, 218, 199, 170, 136, 103, 73, 49, 30, 26, 42, 62, 88,
     117, 145, 170, 187, 192, 187, 170, 145, 117, 88, 62, 42, 26, 21, 33,
     50, 71, 94, 117, 136, 150, 155, 150, 136, 117, 94, 71, 50, 33, 21, 16,
     25, 38, 53, 71, 88, 103, 113, 117, 113, 103, 88, 71, 53, 38, 25, 16,
     11, 18, 27, 38, 50, 62, 73, 80, 83, 80, 73, 62, 50, 38, 27, 18, 11, 7,
     12, 18, 25, 33, 42, 49, 53, 55, 53, 49, 42, 33, 25, 18, 12, 7, 5, 7,
     11, 16, 21, 26, 30, 33, 35, 33, 30, 26, 21, 16, 11, 7, 5
   >>
  >>

DiscKernel(radius) ==
  [radius |-> radius, dim |-> 2 * radius + 1, weights |-> KernelWeights[radius - 1]]

Kernels == [i \in 0..6 |-> DiscKernel(i + 2)]

FRound(v) == IF IsNaN(v) THEN NaN ELSE (v + FOne \div 2) \div FOne
FClamp(v, lo, hi) == IF IsNaN(v) THEN NaN ELSE Max(lo, Min(hi, v))
Strength8(strength) ==
  LET s == FRound(FClamp(strength, 0, FOne) * 255)
  IN  IF IsNaN(strength) THEN 0 ELSE U16(s)

Scale(base, wscaled) == U8(U16(U16(base * wscaled) + 127) \div 255)

(* The kernel cell (ky, kx) lands on frame pixel (cx + kx - r, cy + ky - r) *)
(* and no two cells land on the same pixel, so the scan over the cells is  *)
(* taken pixel by pixel: pixel i is stamped by the one cell over it, when  *)
(* that cell is among the first `done` cells of the scan.                  *)
StampPixel(k, fb, i, cx, cy, base_r, base_g, base_b, s8, done) ==
  LET x == (i - 1) % fb.width
      y == (i - 1) \div fb.width
      r == k.radius
  IN  IF ~(cx >= x - r /\ cx <= x + r /\ cy >= y - r /\ cy <= y + r)
      THEN fb.pixels[i]
      ELSE LET kx == (x - cx) + r
               ky == (y - cy) + r
               w8 == k.weights[ky * k.dim + kx + 1]
               wscaled == U16(U16(w8 * s8) + 127) \div 255
           IN  IF ky * k.dim + kx >= done \/ w8 = 0 THEN fb.pixels[i]
               ELSE add_rgb_saturating(fb, ScreenCoord(cx, kx, r), ScreenCoord(cy, ky, r),
                                       Scale(base_r, wscaled), Scale(base_g, wscaled),
                                       Scale(base_b, wscaled)).pixels[i]

(* [res, fb]: res is an error when a checked build panics on cx + kx - r.  *)
stamp_additive(k, fb, cx, cy, base_r, base_g, base_b, strength, checks) ==
  LET done == CellsDone(cx, cy, k.radius, checks)
  IN  [res |-> IF done < k.dim * k.dim THEN Err("attempt to add with overflow") ELSE Ok,
       fb |-> [fb EXCEPT !.pixels =
                 SubSeq([i \in 1..(fb.width * fb.height) |->
                           StampPixel(k, fb, i, cx, cy, base_r, base_g, base_b,
                                      Strength8(strength), done)],
                        1, fb.width * fb.height)]]

----------------------------------------------------------------------------
(* fx.rs: Particle, Bolt, Fx.  cos and sin are read from 64-entry tables   *)
(* over [0, TAU); sqrt is taken to 1/256 of a pixel.                       *)

CosTable ==
  <<
     32768, 32610, 32138, 31357, 30274, 28899, 27246, 25330, 23170, 20788,
     18205, 15447, 12540, 9512, 6393, 3212, 0, -3212, -6393, -9512, -12540,
     -15447, -18205, -20788, -23170, -25330, -27246, -28899, -30274,
     -31357, -32138, -32610, -32768, -32610, -32138, -31357, -30274,
     -28899, -27246, -25330, -23170, -20788, -18205, -15447, -12540, -9512,
     -6393, -3212, 0, 3212, 6393, 9512, 12540, 15447, 18205, 20788, 23170,
     25330, 27246, 28899, 30274, 31357, 32138, 32610
  >>

SinTable ==
  <<
     0, 3212, 6393, 9512, 12540, 15447, 18205, 20788, 23170, 25330, 27246,
     28899, 30274, 31357, 32138, 32610, 32768, 32610, 32138, 31357, 30274,
     28899, 27246, 25330, 23170, 20788, 18205, 15447, 12540, 9512, 6393,
     3212, 0, -3212, -6393, -9512, -12540, -15447, -18205, -20788, -23170,
     -25330, -27246, -28899, -30274, -31357, -32138, -32610, -32768,
     -32610, -32138, -31357, -30274, -28899, -27246, -25330, -23170,
     -20788, -18205, -15447, -12540, -9512, -6393, -3212
  >>

Tau == 205887
Whole(n) == n * FOne

Cos(ang) == CosTable[(((ang * 64) \div Tau) % 64) + 1]
Sin(ang) == SinTable[(((ang * 64) \div Tau) % 64) + 1]

RECURSIVE SqrtBetween(_, _, _)
SqrtBetween(n, lo, hi) ==
  IF hi - lo <= 1 THEN lo
  ELSE LET mid == (lo + hi) \div 2
       IN  IF mid * mid <= n THEN SqrtBetween(n, mid, hi) ELSE SqrtBetween(n, lo, mid)
FSqrt(v) == SqrtBetween(2 * v, 0, 32768) * 128

FCeil(v) == (v + FOne - 1) \div FOne
F32ToI32(v) ==
  IF IsNaN(v) \/ IsTiny(v) THEN 0
  ELSE IF v >= 0 THEN v \div FOne ELSE 0 - ((0 - v) \div FOne)

Particle(x, y, vx, vy, life, max_life, energy) ==
  [x |-> x, y |-> y, vx |-> vx, vy |-> vy, life |-> life, max_life |-> max_life,
   energy |-> energy]
Bolt(pts, ttl) == [pts |-> pts, ttl |-> ttl]
None == <<>>
Some(v) == <<v>>

Fx_new(max_particles) ==
  [rng |-> from_seed(Seed), particles |-> <<>>, max_particles |-> max_particles,
   bolt |-> None]

SpeedMin == Whole(30)
SpeedMax == Whole(90)
UpwardBias == Whole(20)
LifeMin == 11469
LifeMax == 24576
EnergyMin == 19661

SpawnOne(self, x, y) ==
  LET rng == Stream(self.rng, 5)
      speed == range(rng[1], SpeedMin, SpeedMax).val
      ang == range(rng[2], 0, Tau).val
      vx == FMul(speed, Cos(ang))
      vy == FSub(FMul(speed, Sin(ang)), range(rng[3], 0, UpwardBias).val)
      max_life == range(rng[4], LifeMin, LifeMax).val
      energy == range(rng[5], EnergyMin, FOne).val
  IN  [self EXCEPT !.rng = rng[6],
                 !.particles = Append(self.particles,
                                      Particle(x, y, vx, vy, max_life, max_life, energy))]

PoolOverfull(self) == Len(self.particles) > self.max_particles
PoolFull(self) == Len(self.particles) >= self.max_particles

RECURSIVE spawn_sparkles(_, _, _, _)
spawn_sparkles(self, x, y, count) ==
  IF count = 0 \/ PoolFull(self) THEN self
  ELSE Then(SpawnOne(self, x, y), LAMBDA more : spawn_sparkles(more, x, y, count - 1))

BoltChance == 503316
Segs == 10
BoltLenMin == Whole(40)
BoltLenMax == Whole(90)
Jitter == 19661
Wobble == Whole(2)
BoltTtl == 3277

(* The points of the polyline after n segments; rng holds the generator    *)
(* states of the whole call, segment k drawing from rng[3k + 1 .. 3k + 3]. *)
RECURSIVE BoltPath(_, _, _, _, _, _)
BoltPath(rng, x, y, len, theta, n) ==
  IF n = 0 THEN << <<x, y>> >>
  ELSE LET pts == BoltPath(rng, x, y, len, theta, n - 1)
           px == pts[n][1]
           py == pts[n][2]
           step == FDiv(len, Whole(Segs))
           dir == FAdd(theta, range(rng[3 * n + 1], 0 - Jitter, Jitter).val)
           wx == range(rng[3 * n + 2], 0 - Wobble, Wobble).val
           wy == range(rng[3 * n + 3], 0 - Wobble, Wobble).val
       IN  Append(pts, << FAdd(FAdd(px, FMul(step, Cos(dir))), wx),
                          FAdd(FAdd(py, FMul(step, Sin(dir))), wy) >>)

KeepLiveBolt(self, b) == IF self.bolt = None THEN [self EXCEPT !.bolt = Some(b)] ELSE self
InstallBolt(self, b) == [self EXCEPT !.bolt = Some(b)]

RollFails(x) == next_f32_bits(x) > BoltChance

maybe_spawn_bolt(self, x, y) ==
  LET rng == Stream(self.rng, 3 + 3 * Segs)
      len == range(rng[2], BoltLenMin, BoltLenMax).val
      theta == range(rng[3], 0, Tau).val
  IN  IF RollFails(rng[2]) THEN [self EXCEPT !.rng = rng[2]]
      ELSE InstallBolt([self EXCEPT !.rng = rng[4 + 3 * Segs]],
                       Bolt(BoltPath(rng, x, y, len, theta, Segs), BoltTtl))

Drag == 32113
Gravity == Whole(10)
Glow == 29491
BoltGlow == 39322

Integrate(p, dt) ==
  [p EXCEPT !.x = FAdd(p.x, FMul(p.vx, dt)),
            !.y = FAdd(p.y, FMul(p.vy, dt)),
            !.vx = FMul(p.vx, Drag),
            !.vy = FAdd(FMul(p.vy, Drag), FMul(Gravity, dt)),
            !.life = FSub(p.life, dt)]

RenderParticle(fb, p, checks) ==
  LET life01 == FClamp(FDiv(p.life, p.max_life), 0, FOne)
      desired == FRound(FAdd(FMul(Whole(6), life01), Whole(2)))
      idx == Max(0, Min(6, desired - 2))
      strength == FClamp(FMul(FMul(Glow, p.energy), life01), 0, FOne)
  IN  stamp_additive(Kernels[idx], fb, F32ToI32(p.x), F32ToI32(p.y), 255, 200, 80,
                     strength, checks).fb

swap_remove(ps, i) ==
  LET front == SubSeq(ps, 1, Len(ps) - 1)
  IN  IF i = Len(ps) THEN front ELSE [front EXCEPT ![i] = ps[Len(ps)]]

AfterRemoveSkipping(i) == i + 1
AfterRemove(i) == i

Alive(p) == FGt(p.life, 0)

RECURSIVE ParticleLoop(_, _, _, _, _)
ParticleLoop(ps, i, fb, dt, checks) ==
  IF i > Len(ps) THEN [particles |-> ps, fb |-> fb]
  ELSE LET p == Integrate(ps[i], dt)
           moved == [ps EXCEPT ![i] = p]
       IN  IF Alive(p)
           THEN Then(RenderParticle(fb, p, checks),
                     LAMBDA drawn : ParticleLoop(moved, i + 1, drawn, dt, checks))
           ELSE Then(swap_remove(moved, i),
                     LAMBDA rest : ParticleLoop(rest, AfterRemove(i), fb, dt, checks))

(* The stamps tstep = 0 .. n - 1 of one segment, at t = tstep / steps. *)
RECURSIVE BoltSteps(_, _, _, _, _, _, _, _, _)
BoltSteps(fb, x0, y0, dx, dy, steps, s, n, checks) ==
  IF n = 0 THEN fb
  ELSE LET tstep == n - 1
           t == FDiv(Whole(tstep), Whole(steps))
           x == FAdd(x0, FMul(dx, t))
           y == FAdd(y0, FMul(dy, t))
       IN  Then(BoltSteps(fb, x0, y0, dx, dy, steps, s, n - 1, checks),
                LAMBDA before : stamp_additive(Kernels[1], before, F32ToI32(x), F32ToI32(y),
                                               210, 230, 255, FMul(BoltGlow, s), checks).fb)

(* The first n segments of the polyline drawn into fb. *)
RECURSIVE BoltSegments(_, _, _, _, _)
BoltSegments(fb, pts, s, n, checks) ==
  IF n = 0 THEN fb
  ELSE LET dx == FSub(pts[n + 1][1], pts[n][1])
           dy == FSub(pts[n + 1][2], pts[n][2])
           dist == Max(FSqrt(FAdd(FMul(dx, dx), FMul(dy, dy))), FOne)
           steps == FCeil(FDiv(dist, Whole(2)))
       IN  Then(BoltSegments(fb, pts, s, n - 1, checks),
                LAMBDA before : BoltSteps(before, pts[n][1], pts[n][2], dx, dy, steps, s,
                                          steps + 1, checks))

ExpiredLate(ttl) == ttl < 0
Expired(ttl) == FLe(ttl, 0)

BoltTick(bolt, fb, dt, checks) ==
  IF bolt = None THEN [bolt |-> bolt, fb |-> fb]
  ELSE LET b == bolt[1]
           ttl == FSub(b.ttl, dt)
           s == FClamp(FDiv(ttl, BoltTtl), 0, FOne)
           drawn == BoltSegments(fb, b.pts, s, Max(Len(b.pts) - 1, 0), checks)
       IN  [bolt |-> IF Expired(ttl) THEN None ELSE Some(Bolt(b.pts, ttl)), fb |-> drawn]

update_and_render(self, fb, dt, checks) ==
  LET pool == ParticleLoop(self.particles, 1, fb, dt, checks)
      flash == BoltTick(self.bolt, pool.fb, dt, checks)
  IN  [fx |-> [self EXCEPT !.particles = pool.particles, !.bolt = flash.bolt],
       fb |-> flash.fb]

----------------------------------------------------------------------------
(* draw.rs and main.rs: what the frame loop adds around the calls above.   *)

put_pixel(fb, x, y, color) ==
  IF x < 0 \/ y < 0 \/ x >= fb.width \/ y >= fb.height THEN fb
  ELSE [fb EXCEPT !.pixels[y * fb.width + x + 1] = color]

(* The four arms run from 2 to size pixels off the centre, which gets a    *)
(* dot of its own; put_pixel drops what falls outside the frame.           *)
OnCrosshair(x, y, cx, cy, size) ==
  \/ x = cx /\ y = cy
  \/ y = cy /\ ((cx - size <= x /\ x <= cx - 2) \/ (cx + 2 <= x /\ x <= cx + size))
  \/ x = cx /\ ((cy - size <= y /\ y <= cy - 2) \/ (cy + 2 <= y /\ y <= cy + size))

draw_crosshair(fb, cx, cy, size, color) ==
  [fb EXCEPT !.pixels =
     [i \in 1..(fb.width * fb.height) |->
        IF OnCrosshair((i - 1) % fb.width, (i - 1) \div fb.width, cx, cy, size)
        THEN put_pixel(fb, (i - 1) % fb.width, (i - 1) \div fb.width, color).pixels[i]
        ELSE fb.pixels[i]]]

(* The HUD text starts at (8, 8) and runs right and down from there, so on *)
(* a frame less than 8 pixels wide or high put_pixel drops all of it.      *)
draw_text_5x7(fb, x, y) == fb

BlurRadius == 8
SparklesPerDab == 12
CrosshairSize == 12
CrosshairColour == Pack(255, 204, 51)

(* `?`: an Err leaves main at once, an Ok goes on to the next step.        *)
PropagateSwallowed(res, next) == next
Propagate(res, next) == IF res.ok THEN next ELSE "done"
Returned(res, was) == IF res.ok THEN was ELSE Some(res)

----------------------------------------------------------------------------
(* The states the operations start from. *)

RECURSIVE BoundedSeq(_, _)
BoundedSeq(S, n) ==
  IF n = 0 THEN { <<>> }
  ELSE LET shorter == BoundedSeq(S, n - 1)
       IN  shorter \cup { Append(s, x) : s \in { t \in shorter : Len(t) = n - 1 }, x \in S }

NoOp == [op |-> "none", res |-> Ok]
Did(name, res) == [op |-> name, res |-> res]

MedianDims == { <<1, 1>>, <<2, 1>>, <<1, 2>> }
MedianPatterns == { <<a, 1, 1>> : a \in PaletteIdx }

BlurPatterns == { <<a, b, c>> : a \in PaletteIdx, b \in {0, 1, 3}, c \in {0, 1} }

BlendPatterns == { <<0, 0, 0>>, <<3, 0, 0>> } \cup { <<a, 1, 0>> : a \in PaletteIdx }

AlphaSamples ==
  << 0, FOne, FOne \div 2, FOne \div 4, 1, FOne - 1, 0 - (FOne \div 4), FOne + FOne \div 4, NaN >>

PatternMask(w, h, a, b) ==
  Mask(w, h, [i \in 1..(w * h) |-> AlphaSamples[((a + b * (i - 1)) % Len(AlphaSamples)) + 1]])

PatternMasks(ds) ==
  { PatternMask(d[1], d[2], a, b) : d \in ds, a \in 0..(Len(AlphaSamples) - 1), b \in {0, 1} }

ZeroMask(w, h) == Mask(w, h, [i \in 1..(w * h) |-> 0])

Sigmas == {0, 1, 2}

CursorSamples ==
  { <<0, 0>>, <<1, 0>>, <<0, 1>>, <<1, 1>>, <<-1, 0>>, <<2, 2>>, <<-2, -2>>, <<3, 1>>,
    <<I32Max, 0>>, <<0, I32Min>> }

IdleMedian == frames = <<>> /\ bg = NoFrame
IdleBlur == live = BlankFrame(1, 1) /\ blur_tmp = BlankFrame(1, 1) /\ blur_radius = 0
IdleBlend == screen = BlankFrame(1, 1)
IdleBrush == stamp = make_gaussian_stamp(0, 2) /\ dabs = 0 /\ cursor = <<0, 0>>
IdleLoop ==
  /\ pc = "idle" /\ result = None /\ show_blur = FALSE /\ mask_has_any = FALSE
  /\ iters = 0 /\ presented = 0
NoStrike == [kernel |-> 0, base |-> <<0, 0, 0>>, strength |-> 0]
IdleFx ==
  fx = Fx_new(1) /\ last_dt = 0 /\ last_count = 0 /\ fx_calls = 0 /\ strike = NoStrike
IdleMask == mask = ZeroMask(1, 1) /\ IdleBrush /\ overflow_checks = FALSE

InitMedian ==
  /\ frames \in BoundedSeq(PatternFrames(MedianDims, MedianPatterns), MaxFrames)
  /\ bg = NoFrame
  /\ IdleBlur /\ blur_sink = BlankFrame(1, 1) /\ IdleBlend /\ IdleMask
  /\ IdleFx
  /\ IdleLoop
  /\ last = NoOp

InitBlur ==
  /\ live \in PatternFrames(Dims, BlurPatterns)
  /\ blur_tmp \in { BlankFrame(d[1], d[2]) : d \in Dims }
  /\ blur_sink \in { BlankFrame(d[1], d[2]) : d \in Dims }
  /\ blur_radius \in 0..MaxRadius
  /\ IdleMedian /\ IdleBlend /\ IdleMask
  /\ IdleFx
  /\ IdleLoop
  /\ last = NoOp

InitBlend ==
  /\ screen \in PatternFrames(Dims, BlendPatterns)
  /\ blur_sink \in PatternFrames(Dims, BlendPatterns)
  /\ mask \in PatternMasks(Dims)
  /\ IdleBrush /\ overflow_checks = FALSE
  /\ IdleMedian /\ IdleBlur
  /\ IdleFx
  /\ IdleLoop
  /\ last = NoOp

InitMask ==
  /\ mask \in { ZeroMask(d[1], d[2]) : d \in Dims }
  /\ stamp \in { make_gaussian_stamp(r, s) : r \in 0..MaxStampRadius, s \in Sigmas }
  /\ dabs = 0 /\ cursor = <<0, 0>>
  /\ overflow_checks \in BOOLEAN
  /\ IdleMedian /\ IdleBlur /\ blur_sink = BlankFrame(1, 1) /\ IdleBlend
  /\ IdleFx
  /\ IdleLoop
  /\ last = NoOp

(* The engine as Fx::new leaves it, after 80 rolls of maybe_spawn_bolt     *)
(* (all fail), and after the 81st roll (it succeeds, at the origin) and    *)
(* 12 more failing rolls.                                                  *)
Warm(max_particles) ==
  [Fx_new(max_particles) EXCEPT !.rng = Stream(from_seed(Seed), 80)[81]]
BoltLive(max_particles) ==
  LET spawned == maybe_spawn_bolt(Warm(max_particles), 0, 0)
  IN  [spawned EXCEPT !.rng = Stream(spawned.rng, 12)[13]]

FxFrames == { PatternFrame(2, 2, 0, 0, 0), PatternFrame(2, 2, 1, 1, 1) }
FxCursor == <<1, 1>>
SpawnCounts == {1, 12}
DtSamples == {1638, BoltTtl, 21908, FOne, Tiny}

InitFx ==
  /\ fx \in UNION { { Fx_new(n), Warm(n), BoltLive(n) } : n \in 0..MaxParticles }
  /\ screen \in FxFrames
  /\ last_dt = 0 /\ last_count = 0 /\ fx_calls = 0 /\ strike = NoStrike
  /\ cursor = <<0, 0>> /\ overflow_checks = FALSE
  /\ IdleMedian /\ IdleBlur /\ blur_sink = BlankFrame(1, 1)
  /\ mask = ZeroMask(1, 1) /\ stamp = make_gaussian_stamp(0, 2) /\ dabs = 0
  /\ IdleLoop
  /\ last = NoOp

StampFrames == { PatternFrame(2, 2, a, bc, bc) : a \in PaletteIdx, bc \in {0, 1} }
StampCentres == { <<0, 0>>, <<3, 0>>, <<0 - 2, 0 - 1>>, <<I32Max, 0>>, <<0, I32Min>> }
StampKernels == {0, 1, 6}
StampColours == { <<255, 200, 80>>, <<210, 230, 255>> }
StampStrengths == {0, FOne \div 2, FOne, BoltGlow, NaN}

InitStamp ==
  /\ screen \in StampFrames
  /\ overflow_checks \in BOOLEAN
  /\ fx = Fx_new(1) /\ last_dt = 0 /\ last_count = 0 /\ fx_calls = 0
  /\ strike = NoStrike /\ cursor = <<0, 0>>
  /\ IdleMedian /\ IdleBlur /\ blur_sink = BlankFrame(1, 1)
  /\ mask = ZeroMask(1, 1) /\ stamp = make_gaussian_stamp(0, 2) /\ dabs = 0
  /\ IdleLoop
  /\ last = NoOp

(* main after its setup: buffers, mask and screen of the camera's size,    *)
(* all zero; the brush with sigma = radius / 2; an empty Fx.  The frame    *)
(* and the brush are scaled down to the model's bounds.                    *)
CameraFrames == { PatternFrame(MaxW, MaxH, 1, 1, 1) }
OtherSizeFrames == { PatternFrame(MaxW, 1, 1, 1, 1) }
CameraResults ==
  { [res |-> Ok, frame |-> f] : f \in CameraFrames \cup OtherSizeFrames }
    \cup { [res |-> Err("Fetch frame"), frame |-> NoFrame] }
PresentResults == { Ok, Err("window update") }
LoopDts == {1638, 21908}
MousePositions == { None, Some(<<MaxW - 1, MaxH - 1>>) }

InitLoop ==
  /\ screen = BlankFrame(MaxW, MaxH)
  /\ blur_tmp = BlankFrame(MaxW, MaxH) /\ blur_sink = BlankFrame(MaxW, MaxH)
  /\ blur_radius = BlurRadius
  /\ mask = ZeroMask(MaxW, MaxH)
  /\ stamp = make_gaussian_stamp(MaxStampRadius, MaxStampRadius)
  /\ mask_has_any = FALSE
  /\ fx = Fx_new(MaxParticles)
  /\ show_blur = FALSE
  /\ pc = "frame" /\ result = None /\ iters = 0 /\ presented = 0
  /\ live = BlankFrame(MaxW, MaxH)
  /\ overflow_checks \in BOOLEAN
  /\ IdleMedian /\ dabs = 0 /\ cursor = <<0, 0>>
  /\ last_dt = 0 /\ last_count = 0 /\ fx_calls = 0 /\ strike = NoStrike
  /\ last = NoOp

----------------------------------------------------------------------------
(* The operations. *)

MedianBackground ==
  LET out == median_background(frames)
  IN  /\ bg' = out.frame
      /\ last' = Did("median_background", out.res)
      /\ UNCHANGED loop_vars
      /\ UNCHANGED <<frames, live, blur_tmp, blur_sink, blur_radius, screen,
                      mask, stamp, dabs, cursor, overflow_checks, fx,
                      last_dt, last_count, fx_calls, strike>>

BoxBlur ==
  LET out == box_blur_rgb(live, blur_tmp, blur_sink, blur_radius)
  IN  /\ blur_tmp' = out.tmp
      /\ blur_sink' = out.dst
      /\ last' = Did("box_blur_rgb", out.res)
      /\ UNCHANGED loop_vars
      /\ UNCHANGED <<frames, bg, live, blur_radius, screen, mask, stamp,
                      dabs, cursor, overflow_checks, fx, last_dt, last_count, fx_calls, strike>>

Blend ==
  LET out == blend_linear_in_place(screen, blur_sink, mask)
  IN  /\ screen' = out.fg
      /\ last' = Did("blend_linear_in_place", out.res)
      /\ UNCHANGED loop_vars
      /\ UNCHANGED <<frames, bg, live, blur_tmp, blur_sink, blur_radius,
                      mask, stamp, dabs, cursor, overflow_checks, fx,
                      last_dt, last_count, fx_calls, strike>>

DabMask(cx, cy) ==
  LET out == dab_mask(mask, cx, cy, stamp, overflow_checks)
  IN  /\ dabs < MaxDabs
      /\ mask' = out.mask
      /\ cursor' = <<cx, cy>>
      /\ dabs' = dabs + 1
      /\ last' = Did("dab_mask", out.res)
      /\ UNCHANGED loop_vars
      /\ UNCHANGED <<frames, bg, live, blur_tmp, blur_sink, blur_radius,
                      screen, stamp, overflow_checks, fx, last_dt, last_count,
                      fx_calls, strike>>

Dab == \E c \in CursorSamples : DabMask(c[1], c[2])

ClearMask ==
  /\ mask' = clear_mask(mask)
  /\ last' = Did("clear_mask", Ok)
  /\ UNCHANGED loop_vars
  /\ UNCHANGED <<frames, bg, live, blur_tmp, blur_sink, blur_radius, screen,
                  stamp, dabs, cursor, overflow_checks, fx, last_dt, last_count,
                  fx_calls, strike>>

SpawnSparkles(x, y, n) ==
  /\ fx_calls < MaxFxCalls
  /\ fx' = spawn_sparkles(fx, Whole(x), Whole(y), n)
  /\ cursor' = <<x, y>>
  /\ last_count' = n
  /\ fx_calls' = fx_calls + 1
  /\ last' = Did("spawn_sparkles", Ok)
  /\ UNCHANGED loop_vars
  /\ UNCHANGED <<frames, bg, live, blur_tmp, blur_sink, blur_radius, screen,
                  mask, stamp, dabs, overflow_checks, last_dt, strike>>

Sparkle == \E n \in SpawnCounts : SpawnSparkles(FxCursor[1], FxCursor[2], n)

MaybeSpawnBolt(x, y) ==
  /\ fx_calls < MaxFxCalls
  /\ fx' = maybe_spawn_bolt(fx, Whole(x), Whole(y))
  /\ cursor' = <<x, y>>
  /\ fx_calls' = fx_calls + 1
  /\ last' = Did("maybe_spawn_bolt", Ok)
  /\ UNCHANGED loop_vars
  /\ UNCHANGED <<frames, bg, live, blur_tmp, blur_sink, blur_radius, screen,
                  mask, stamp, dabs, overflow_checks, last_dt, last_count,
                  strike>>

Zap == MaybeSpawnBolt(FxCursor[1], FxCursor[2])

UpdateAndRender(d) ==
  LET out == update_and_render(fx, screen, d, overflow_checks)
  IN  /\ fx_calls < MaxFxCalls
      /\ fx' = out.fx
      /\ screen' = out.fb
      /\ last_dt' = d
      /\ fx_calls' = fx_calls + 1
      /\ last' = Did("update_and_render", Ok)
      /\ UNCHANGED loop_vars
      /\ UNCHANGED <<frames, bg, live, blur_tmp, blur_sink, blur_radius, mask,
                      stamp, dabs, cursor, overflow_checks, last_count,
                      strike>>

Tick == \E d \in DtSamples : UpdateAndRender(d)

StampAdditive(k, cx, cy, base, strength) ==
  LET out == stamp_additive(Kernels[k], screen, cx, cy, base[1], base[2], base[3],
                            strength, overflow_checks)
  IN  /\ fx_calls < MaxStamps
      /\ screen' = out.fb
      /\ cursor' = <<cx, cy>>
      /\ strike' = [kernel |-> k, base |-> base, strength |-> strength]
      /\ fx_calls' = fx_calls + 1
      /\ last' = Did("stamp_additive", out.res)
      /\ UNCHANGED loop_vars
      /\ UNCHANGED <<frames, bg, live, blur_tmp, blur_sink, blur_radius, mask,
                      stamp, dabs, overflow_checks, fx, last_dt, last_count>>

Strike ==
  \E k \in StampKernels, c \in StampCentres, base \in StampColours,
     strength \in StampStrengths :
    StampAdditive(k, c[1], c[2], base, strength)

(* The frame loop of main, one action per numbered step of its body.  The  *)
(* window, the keys, the mouse, the clock and the camera are the           *)
(* environment's, chosen afresh at each step that reads them.              *)

Quit ==
  /\ pc = "frame"
  /\ pc' = "done"
  /\ result' = Some(Ok)
  /\ last' = Did("quit", Ok)
  /\ UNCHANGED <<frames, bg, live, blur_tmp, blur_sink, blur_radius, screen, mask,
                  stamp, dabs, cursor, overflow_checks, fx, last_dt, last_count,
                  fx_calls, strike, show_blur, mask_has_any, iters, presented>>

NextFrame(dt, out) ==
  /\ pc = "frame" /\ iters < MaxIters
  /\ iters' = iters + 1
  /\ last_dt' = dt
  /\ live' = IF out.res.ok THEN out.frame ELSE live
  /\ pc' = Propagate(out.res, "keys")
  /\ result' = Returned(out.res, result)
  /\ last' = Did("next_frame", out.res)
  /\ UNCHANGED <<frames, bg, blur_tmp, blur_sink, blur_radius, screen, mask, stamp,
                  dabs, cursor, overflow_checks, fx, last_count, fx_calls, strike,
                  show_blur, mask_has_any, presented>>

Capture == \E dt \in LoopDts, out \in CameraResults : NextFrame(dt, out)

KeepAlpha(m) == m
ZeroAlpha(m) == [m EXCEPT !.alpha = [i \in DOMAIN m.alpha |-> 0]]

Keys(b_pressed, c_pressed) ==
  /\ pc = "keys"
  /\ show_blur' = IF b_pressed THEN ~show_blur ELSE show_blur
  /\ mask' = IF c_pressed THEN ZeroAlpha(mask) ELSE mask
  /\ mask_has_any' = IF c_pressed THEN FALSE ELSE mask_has_any
  /\ pc' = "paint"
  /\ last' = Did(IF c_pressed THEN "c_pressed" ELSE "keys", Ok)
  /\ UNCHANGED <<frames, bg, live, blur_tmp, blur_sink, blur_radius, screen, stamp,
                  dabs, cursor, overflow_checks, fx, last_dt, last_count, fx_calls,
                  strike, result, iters, presented>>

Inputs == \E b_pressed \in BOOLEAN, c_pressed \in BOOLEAN : Keys(b_pressed, c_pressed)

Paint(mouse) ==
  /\ pc = "paint" /\ mouse # None
  /\ LET mx == mouse[1][1]
         my == mouse[1][2]
         out == dab_mask(mask, mx, my, stamp, overflow_checks)
     IN  /\ mask' = out.mask
         /\ mask_has_any' = TRUE
         /\ cursor' = <<mx, my>>
         /\ fx' = maybe_spawn_bolt(spawn_sparkles(fx, Whole(mx), Whole(my), SparklesPerDab),
                                   Whole(mx), Whole(my))
         /\ last_count' = SparklesPerDab
         /\ last' = Did("paint", out.res)
  /\ pc' = "blur"
  /\ UNCHANGED <<frames, bg, live, blur_tmp, blur_sink, blur_radius, screen, stamp,
                  dabs, overflow_checks, last_dt, fx_calls, strike, result,
                  show_blur, iters, presented>>

NoPaint ==
  /\ pc = "paint"
  /\ pc' = "blur"
  /\ last' = Did("no_paint", Ok)
  /\ UNCHANGED <<frames, bg, live, blur_tmp, blur_sink, blur_radius, screen, mask,
                  stamp, dabs, cursor, overflow_checks, fx, last_dt, last_count,
                  fx_calls, strike, result, show_blur, mask_has_any, iters, presented>>

Brush == NoPaint \/ \E mouse \in MousePositions : Paint(mouse)

BuildSink ==
  LET out == box_blur_rgb(live, blur_tmp, blur_sink, blur_radius)
  IN  /\ pc = "blur"
      /\ blur_tmp' = out.tmp
      /\ blur_sink' = out.dst
      /\ pc' = Propagate(out.res, "compose")
      /\ result' = Returned(out.res, result)
      /\ last' = Did("box_blur_rgb", out.res)
      /\ UNCHANGED <<frames, bg, live, blur_radius, screen, mask, stamp, dabs, cursor,
                      overflow_checks, fx, last_dt, last_count, fx_calls, strike,
                      show_blur, mask_has_any, iters, presented>>

Compose ==
  LET base == [screen EXCEPT !.pixels = IF show_blur THEN blur_sink.pixels ELSE live.pixels]
      out == IF ~show_blur /\ mask_has_any
             THEN blend_linear_in_place(base, blur_sink, mask)
             ELSE [res |-> Ok, fg |-> base]
  IN  /\ pc = "compose"
      /\ screen' = out.fg
      /\ pc' = Propagate(out.res, "fx")
      /\ result' = Returned(out.res, result)
      /\ last' = Did("blend_linear_in_place", out.res)
      /\ UNCHANGED <<frames, bg, live, blur_tmp, blur_sink, blur_radius, mask, stamp,
                      dabs, cursor, overflow_checks, fx, last_dt, last_count, fx_calls,
                      strike, show_blur, mask_has_any, iters, presented>>

Effects(mouse) ==
  LET out == update_and_render(fx, screen, last_dt, overflow_checks)
      aimed == IF mouse = None THEN out.fb
               ELSE draw_crosshair(out.fb, mouse[1][1], mouse[1][2], CrosshairSize,
                                   CrosshairColour)
  IN  /\ pc = "fx"
      /\ fx' = out.fx
      /\ screen' = draw_text_5x7(aimed, 8, 8)
      /\ pc' = "present"
      /\ last' = Did("effects", Ok)
      /\ UNCHANGED <<frames, bg, live, blur_tmp, blur_sink, blur_radius, mask, stamp,
                      dabs, cursor, overflow_checks, last_dt, last_count, fx_calls,
                      strike, result, show_blur, mask_has_any, iters, presented>>

Overlay == \E mouse \in MousePositions : Effects(mouse)

Present(res) ==
  /\ pc = "present"
  /\ presented' = IF res.ok THEN presented + 1 ELSE presented
  /\ pc' = Propagate(res, "frame")
  /\ result' = Returned(res, result)
  /\ last' = Did("present", res)
  /\ UNCHANGED <<frames, bg, live, blur_tmp, blur_sink, blur_radius, screen, mask,
                  stamp, dabs, cursor, overflow_checks, fx, last_dt, last_count,
                  fx_calls, strike, show_blur, mask_has_any, iters>>

Show == \E res \in PresentResults : Present(res)

InitVision == InitBlur \/ InitBlend

NextMedian == MedianBackground
NextBlur == BoxBlur
NextBlend == Blend
NextVision == BoxBlur \/ Blend
NextMask == Dab \/ ClearMask
NextFx == Sparkle \/ Zap \/ Tick
NextLoop == Quit \/ Capture \/ Inputs \/ Brush \/ BuildSink \/ Compose \/ Overlay \/ Show

SpecMedian == InitMedian /\ [][NextMedian]_vars
SpecBlur == InitBlur /\ [][NextBlur]_vars
SpecBlend == InitBlend /\ [][NextBlend]_vars
SpecVision == InitVision /\ [][NextVision]_vars
SpecMask == InitMask /\ [][NextMask]_vars
SpecFx == InitFx /\ [][NextFx]_vars
SpecStamp == InitStamp /\ [][Strike]_vars
SpecLoop == InitLoop /\ [][NextLoop]_vars
NextClear == (pc = "idle" /\ NextMask) \/ NextLoop
SpecClear == (InitMask \/ InitLoop) /\ [][NextClear]_vars

----------------------------------------------------------------------------
(* Properties of blend_linear_in_place, under SpecBlend. *)

BlendRan == last.op = "blend_linear_in_place" /\ last.res.ok
BlendRuns == last'.op = "blend_linear_in_place" /\ last'.res.ok
Pixels(fb) == 1..(fb.width * fb.height)
AtMostZero(a) == a # NaN /\ a <= 0
AtLeastOne(a) == a # NaN /\ a >= FOne
Intermediate(a) == a # NaN /\ 0 < a /\ a < FOne
Uniform(fb, colour) == \A i \in Pixels(fb) : fb.pixels[i] = colour

(* C1: a successful blend leaves every pixel whose mask value is <= 0 as   *)
(* it was and sets every pixel whose mask value is >= 1 to the sink pixel; *)
(* so black under an all-1.0 mask against white turns white, under an      *)
(* all-0.0 mask it stays black, and blending again with an all-1.0 mask    *)
(* changes nothing.                                                        *)
C1_BlendEndpoints ==
  [][BlendRuns =>
       /\ \A i \in Pixels(screen) :
            /\ AtMostZero(mask.alpha[i]) => screen'.pixels[i] = screen.pixels[i]
            /\ AtLeastOne(mask.alpha[i]) => screen'.pixels[i] = blur_sink.pixels[i]
       /\ (/\ Uniform(screen, Pack(0, 0, 0)) /\ Uniform(blur_sink, Pack(255, 255, 255))
           /\ \A i \in Pixels(mask) : mask.alpha[i] = FOne)
          => Uniform(screen', Pack(255, 255, 255))
       /\ (/\ Uniform(screen, Pack(0, 0, 0))
           /\ \A i \in Pixels(mask) : mask.alpha[i] = 0)
          => Uniform(screen', Pack(0, 0, 0))
       /\ (BlendRan /\ \A i \in Pixels(mask) : mask.alpha[i] = FOne)
          => screen' = screen]_vars

C1_Witness ==
  /\ BlendRan
  /\ screen.width = 2 /\ screen.height = 2
  /\ \E i, j \in Pixels(screen) :
       /\ AtMostZero(mask.alpha[i]) /\ screen.pixels[i] # blur_sink.pixels[i]
       /\ AtLeastOne(mask.alpha[j]) /\ screen.pixels[j] = blur_sink.pixels[j]
                                    /\ screen.pixels[j] # Pack(0, 0, 0)

StrictlyBetween(v, x, y) == Min(x, y) < v /\ v < Max(x, y)
WeaklyBetween(v, x, y) == Min(x, y) <= v /\ v <= Max(x, y)

(* C2, as claimed: where 0 < a < 1 and the foreground and sink bytes of a  *)
(* channel differ, the output byte is strictly between the two.            *)
C2_StrictlyBetween ==
  [][BlendRuns =>
       \A i \in Pixels(screen) : \A c \in Channels :
          (/\ Intermediate(mask.alpha[i])
           /\ Chan(c, screen.pixels[i]) # Chan(c, blur_sink.pixels[i]))
          => StrictlyBetween(Chan(c, screen'.pixels[i]),
                             Chan(c, screen.pixels[i]), Chan(c, blur_sink.pixels[i]))]_vars

(* C2, amended: where 0 < a < 1 and the foreground and sink bytes of a     *)
(* channel differ, the output byte lies between the two, either of them    *)
(* included.                                                               *)
C2_WeaklyBetween ==
  [][BlendRuns =>
       \A i \in Pixels(screen) : \A c \in Channels :
          (/\ Intermediate(mask.alpha[i])
           /\ Chan(c, screen.pixels[i]) # Chan(c, blur_sink.pixels[i]))
          => WeaklyBetween(Chan(c, screen'.pixels[i]),
                           Chan(c, screen.pixels[i]), Chan(c, blur_sink.pixels[i]))]_vars

C2_Witness ==
  /\ BlendRan
  /\ \E i \in Pixels(screen) : \E c \in Channels :
       /\ mask.alpha[i] = FOne \div 2
       /\ Chan(c, screen.pixels[i]) > 128
       /\ Chan(c, screen.pixels[i]) < Chan(c, blur_sink.pixels[i])

----------------------------------------------------------------------------
(* Properties of median_background, under SpecMedian. *)

MedianRan == last.op = "median_background"
SameDims == \A i \in 1..Len(frames) :
              frames[i].width = frames[1].width /\ frames[i].height = frames[1].height
Sample(c, idx, i) == Chan(c, frames[i].pixels[idx])
Below(c, idx, v) == Cardinality({ i \in 1..Len(frames) : Sample(c, idx, i) < v })
AtMost(c, idx, v) == Cardinality({ i \in 1..Len(frames) : Sample(c, idx, i) <= v })
Equal(c, idx, v) == Cardinality({ i \in 1..Len(frames) : Sample(c, idx, i) = v })
SampleValues(c, idx) == { Sample(c, idx, i) : i \in 1..Len(frames) }

(* v is the element at 0-based index n of the samples sorted ascending *)
OrderStatistic(c, idx, v, n) == Below(c, idx, v) <= n /\ n < AtMost(c, idx, v)

(* C3: for k >= 1 frames of one size the result is a frame of that size    *)
(* whose every channel of every pixel is the element at index floor(k/2)   *)
(* of that channel's k samples sorted ascending.                           *)
C3_MedianIsOrderStatistic ==
  (MedianRan /\ frames # <<>> /\ SameDims) =>
    /\ last.res.ok
    /\ bg.width = frames[1].width /\ bg.height = frames[1].height
    /\ Len(bg.pixels) = bg.width * bg.height
    /\ \A idx \in Pixels(bg) :
         /\ bg.pixels[idx] < 16777216
         /\ \A c \in Channels :
              OrderStatistic(c, idx, Chan(c, bg.pixels[idx]), Len(frames) \div 2)

C3_Witness ==
  /\ MedianRan /\ last.res.ok
  /\ Len(frames) = 3 /\ bg.width = 2
  /\ \E idx \in Pixels(bg) : Cardinality(SampleValues("g", idx)) = 3

(* C4, as claimed: for an even number of frames the result is the smaller  *)
(* of the two middle order statistics.                                     *)
C4_LowerMedianOnEven ==
  (MedianRan /\ last.res.ok /\ Len(frames) % 2 = 0) =>
    \A idx \in Pixels(bg) : \A c \in Channels :
       OrderStatistic(c, idx, Chan(c, bg.pixels[idx]), Len(frames) \div 2 - 1)

(* C4, amended: for an even number of frames the result is the larger of   *)
(* the two middle order statistics, and not their average when they        *)
(* differ.                                                                 *)
C4_UpperMedianOnEven ==
  (MedianRan /\ last.res.ok /\ Len(frames) % 2 = 0) =>
    \A idx \in Pixels(bg) : \A c \in Channels :
       \E lo, hi \in SampleValues(c, idx) :
          /\ OrderStatistic(c, idx, lo, Len(frames) \div 2 - 1)
          /\ OrderStatistic(c, idx, hi, Len(frames) \div 2)
          /\ Chan(c, bg.pixels[idx]) = Max(lo, hi)
          /\ lo # hi => 2 * Chan(c, bg.pixels[idx]) # lo + hi

C4_Witness ==
  /\ MedianRan /\ last.res.ok /\ Len(frames) = 4
  /\ \E idx \in Pixels(bg) :
       /\ Cardinality(SampleValues("r", idx)) = 4
       /\ R(bg.pixels[idx]) = 2

(* C5, as claimed: when some frame carries an outlier and the frames       *)
(* agreeing on another value v are at least half of the k frames, the      *)
(* result is v.                                                            *)
C5_HalfAgreeing ==
  (MedianRan /\ last.res.ok) =>
    \A idx \in Pixels(bg) : \A c \in Channels : \A v \in SampleValues(c, idx) :
       (/\ \E i \in 1..Len(frames) : Sample(c, idx, i) # v
        /\ 2 * Equal(c, idx, v) >= Len(frames))
       => Chan(c, bg.pixels[idx]) = v

(* C5, amended: when some frame carries an outlier and the frames agreeing *)
(* on another value v are more than half of the k frames, the result is v. *)
C5_MajorityAgreeing ==
  (MedianRan /\ last.res.ok) =>
    \A idx \in Pixels(bg) : \A c \in Channels : \A v \in SampleValues(c, idx) :
       (/\ \E i \in 1..Len(frames) : Sample(c, idx, i) # v
        /\ 2 * Equal(c, idx, v) > Len(frames))
       => Chan(c, bg.pixels[idx]) = v

C5_Witness ==
  /\ MedianRan /\ last.res.ok /\ Len(frames) = 3
  /\ Sample("b", 1, 1) = 11 /\ Sample("b", 1, 2) = 255 /\ Sample("b", 1, 3) = 11
  /\ B(bg.pixels[1]) = 11

(* C6: no frames is an error without a frame, a frame whose width or       *)
(* height differs from the first frame's is an error without a frame, and  *)
(* every other input yields a frame.                                       *)
C6_MedianErrors ==
  MedianRan =>
    /\ frames = <<>> =>
         ~last.res.ok /\ last.res.err = "median_background: no frames" /\ bg = NoFrame
    /\ (frames # <<>> /\ ~SameDims) =>
         /\ ~last.res.ok /\ bg = NoFrame
         /\ last.res.err = "median_background: frames must share identical dimensions"
    /\ (frames # <<>> /\ SameDims) =>
         last.res.ok /\ bg # NoFrame /\ bg.width = frames[1].width

C6_Witness ==
  /\ MedianRan /\ ~last.res.ok /\ Len(frames) = 3
  /\ frames[3].width = frames[1].width /\ frames[3].height # frames[1].height
  /\ frames[2].width = frames[1].width /\ frames[2].height = frames[1].height

----------------------------------------------------------------------------
(* Properties of box_blur_rgb, under SpecBlur. *)

BlurRan == last.op = "box_blur_rgb" /\ last.res.ok
BlurRuns == last'.op = "box_blur_rgb" /\ last'.res.ok
Clamp(i, n) == Max(0, Min(i, n - 1))

(* the source channel at (x, y), a position outside the image taking the   *)
(* nearest edge pixel                                                      *)
SrcAt(c, x, y) ==
  Chan(c, live.pixels[Clamp(y, live.height) * live.width + Clamp(x, live.width) + 1])
RowBoxSum(c, x, y, r) == SumSeq([k \in 1..(2 * r + 1) |-> SrcAt(c, x - r + k - 1, y)])
BoxSum(c, x, y, r) == SumSeq([k \in 1..(2 * r + 1) |-> RowBoxSum(c, x, y - r + k - 1, r)])
TwoPass(c, x, y, r) ==
  SumSeq([k \in 1..(2 * r + 1) |-> RowBoxSum(c, x, y - r + k - 1, r) \div (2 * r + 1)])
    \div (2 * r + 1)
DstAt(c, x, y) == Chan(c, blur_sink.pixels[y * blur_sink.width + x + 1])
BoxArea(r) == (2 * r + 1) * (2 * r + 1)

----------------------------------------------------------------------------
(* Dimension checks of the blend and the blur, under SpecVision. *)

SameSize(a, b) == a.width = b.width /\ a.height = b.height

(* C9: a blend whose sink or mask differs in size from the foreground is   *)
(* an error that changes no foreground pixel; a blur whose src, tmp and    *)
(* dst do not share one size is an error that writes neither tmp nor dst.  *)
C9_MismatchWritesNothing ==
  [][/\ (/\ last'.op = "blend_linear_in_place"
         /\ ~(SameSize(screen, blur_sink) /\ SameSize(screen, mask)))
        => ~last'.res.ok /\ screen' = screen
     /\ (/\ last'.op = "box_blur_rgb"
         /\ ~(SameSize(live, blur_sink) /\ SameSize(live, blur_tmp)))
        => ~last'.res.ok /\ blur_tmp' = blur_tmp /\ blur_sink' = blur_sink]_vars

C9_Witness ==
  /\ last.op = "box_blur_rgb" /\ ~last.res.ok
  /\ SameSize(live, blur_tmp) /\ ~SameSize(live, blur_sink)
  /\ live.width = 2 /\ live.height = 2 /\ ~Uniform(live, Pack(0, 0, 0))
  /\ Uniform(blur_tmp, 0)

----------------------------------------------------------------------------
(* Properties of the mask painter, under SpecMask. *)

(* C10: after any dab_mask and clear_mask calls on an all-zero mask, with  *)
(* a stamp built by make_gaussian_stamp, every mask value lies in          *)
(* [0.0, 1.0] and the mask keeps width * height values.                    *)
C10_MaskInUnitInterval ==
  /\ Len(mask.alpha) = mask.width * mask.height
  /\ \A i \in Pixels(mask) :
       mask.alpha[i] # NaN /\ 0 <= mask.alpha[i] /\ mask.alpha[i] <= FOne

DabStep == last'.op = "dab_mask" /\ dabs' = dabs + 1
PixelX(i, m) == (i - 1) % m.width
PixelY(i, m) == (i - 1) \div m.width
UnderStamp(i, m, c, r) ==
  /\ c[1] >= PixelX(i, m) - r /\ c[1] <= PixelX(i, m) + r
  /\ c[2] >= PixelY(i, m) - r /\ c[2] <= PixelY(i, m) + r
WeightUnder(i, m, c, st) ==
  st.weights[(PixelY(i, m) - c[2] + st.radius) * (2 * st.radius + 1)
             + (PixelX(i, m) - c[1] + st.radius) + 1]
FMin(a, b) == IF IsNaN(a) THEN b ELSE IF IsNaN(b) THEN a ELSE Min(a, b)

(* C11: a dab sets every mask pixel under a kernel cell to                 *)
(* min(1.0, old value + the cell's weight); so it lowers no mask value,    *)
(* and a pixel that has reached 1.0 stays at 1.0 under further dabs (with  *)
(* a positive weight each dab adds that weight until 1.0 is reached).      *)
C11_DabAddsAndSaturates ==
  [][DabStep =>
       \A i \in Pixels(mask) :
         /\ UnderStamp(i, mask, cursor', stamp.radius) =>
              mask'.alpha[i] = FMin(FOne, FAdd(mask.alpha[i], WeightUnder(i, mask, cursor', stamp)))
         /\ FGe(mask'.alpha[i], mask.alpha[i])
         /\ mask.alpha[i] = FOne => mask'.alpha[i] = FOne]_vars

(* C12: a dab changes only pixels inside the mask within radius r of the   *)
(* cursor in both axes, keeps the mask's size, and skips kernel cells      *)
(* outside the mask without an error, wherever the cursor is.              *)
C12_DabClipsToMask ==
  [][DabStep =>
       /\ last'.res = Ok
       /\ mask'.width = mask.width /\ mask'.height = mask.height
       /\ Len(mask'.alpha) = Len(mask.alpha)
       /\ \A i \in Pixels(mask) :
            ~UnderStamp(i, mask, cursor', stamp.radius) => mask'.alpha[i] = mask.alpha[i]]_vars

CentreWeight(st) == st.weights[st.radius * (2 * st.radius + 1) + st.radius + 1]
InsideMask(c, m) == c[1] >= 0 /\ c[1] < m.width /\ c[2] >= 0 /\ c[2] < m.height

(* C14: the stamp has (2 * radius + 1)^2 weights, its centre weight is     *)
(* exactly 1.0 and no weight exceeds it; so one dab centred inside the     *)
(* mask leaves the pixel under the centre at exactly 1.0.                  *)
C14_StampPeaksAtCentre ==
  /\ Len(stamp.weights) = (2 * stamp.radius + 1) * (2 * stamp.radius + 1)
  /\ CentreWeight(stamp) = FOne
  /\ \A k \in DOMAIN stamp.weights : FLe(stamp.weights[k], CentreWeight(stamp))
  /\ (dabs = 1 /\ last.op = "dab_mask" /\ InsideMask(cursor, mask)) =>
       mask.alpha[cursor[2] * mask.width + cursor[1] + 1] = FOne

----------------------------------------------------------------------------
(* Fx::update_and_render, particles. *)

UpdateStep == last'.op = "update_and_render" /\ fx_calls' = fx_calls + 1

Born(p) == <<p.max_life, p.energy>>
Lives(ps) == [i \in DOMAIN ps |-> <<Born(ps[i]), ps[i].life>>]
AgedLives(ps, dt) == [i \in DOMAIN ps |-> <<Born(ps[i]), FSub(ps[i].life, dt)>>]
StillAlive(e) == FGt(e[2], 0)
Times(s, e) == Cardinality({ i \in DOMAIN s : s[i] = e })
SameBag(s, t) ==
  \A e \in { s[i] : i \in DOMAIN s } \cup { t[i] : i \in DOMAIN t } :
    Times(s, e) = Times(t, e)

(* C15, as stated: on a tick with dt > 0 the life of every particle that   *)
(* stays in the pool is lower than it was before the tick.                 *)
C15_LifeStrictlyDecreases ==
  [][ UpdateStep /\ FGt(last_dt', 0)
      => \A j \in DOMAIN fx'.particles : \E i \in DOMAIN fx.particles :
           /\ Born(fx'.particles[j]) = Born(fx.particles[i])
           /\ fx'.particles[j].life < fx.particles[i].life ]_vars

(* C15, amended: on every tick with dt > 0 each particle's life becomes    *)
(* the f32 difference life - dt (the same value when dt is too small to    *)
(* change it); the particles whose new life is <= 0 leave the pool in that *)
(* tick, all others stay, so every particle left has life > 0; and a tick  *)
(* that leaves no particle and had no bolt draws nothing.                  *)
C15_ParticlesAgeAndDie ==
  [][ UpdateStep /\ FGt(last_dt', 0)
      => /\ SameBag(Lives(fx'.particles),
                    SelectSeq(AgedLives(fx.particles, last_dt'), StillAlive))
         /\ \A j \in DOMAIN fx'.particles : FGt(fx'.particles[j].life, 0)
         /\ (fx'.particles = <<>> /\ fx.bolt = None => screen' = screen) ]_vars

(* A tick of 21908 has removed the first spawned particle (life 21908) and *)
(* kept the second (life 22764), which took its slot.                      *)
C15_Witness ==
  /\ last.op = "update_and_render" /\ last_dt = 21908
  /\ fx.max_particles = 2 /\ Len(fx.particles) = 1
  /\ fx.particles[1].max_life = 22764 /\ fx.particles[1].life = 856

----------------------------------------------------------------------------
(* Fx::maybe_spawn_bolt. *)

BoltStep == last'.op = "maybe_spawn_bolt" /\ fx_calls' = fx_calls + 1
Rolled == next_f32_bits(next_u32(fx.rng))
SpawnPoint == <<Whole(cursor[1]), Whole(cursor[2])>>

(* C16: the engine never holds more than one bolt; a maybe_spawn_bolt call *)
(* whose roll is at most 0.03 leaves a bolt with ttl 0.10 and 11 points    *)
(* starting at the spawn position, whatever bolt was live before; a call   *)
(* whose roll is above 0.03 leaves the bolt, or its absence, as it was.    *)
C16_OneBoltReplacedOnSuccess ==
  [][ BoltStep
      => /\ Len(fx'.bolt) <= 1
         /\ Rolled <= BoltChance
              => /\ fx'.bolt # None
                 /\ fx'.bolt[1].ttl = BoltTtl
                 /\ Len(fx'.bolt[1].pts) = Segs + 1
                 /\ fx'.bolt[1].pts[1] = SpawnPoint'
         /\ Rolled > BoltChance => fx'.bolt = fx.bolt ]_vars

(* A successful roll at the cursor has replaced the bolt that was live at  *)
(* the origin.                                                             *)
C16_Witness ==
  /\ last.op = "maybe_spawn_bolt" /\ fx_calls = 1
  /\ fx.bolt # None
  /\ fx.bolt[1].pts[1] = SpawnPoint /\ cursor = FxCursor
  /\ fx.rng = Stream(BoltLive(1).rng, 33)[34]

----------------------------------------------------------------------------
(* Fx::update_and_render, lightning. *)

BoltTickStep == UpdateStep /\ fx.bolt # None /\ FGt(last_dt', 0)

(* C17, as stated: a tick with dt > 0 that leaves the bolt live has        *)
(* lowered its time-to-live, so that ticks with dt > 0 use it up.          *)
C17_TtlStrictlyDecreases ==
  [][ BoltTickStep /\ fx'.bolt # None
      => fx'.bolt[1].ttl < fx.bolt[1].ttl ]_vars

(* C17, amended: a tick with dt > 0 sets the time-to-live of a live bolt   *)
(* to the f32 difference ttl - dt, lower than before unless dt is too      *)
(* small to change it; the bolt, with the same points, is present after    *)
(* the tick exactly when that value is > 0; and the tick that removes it   *)
(* adds nothing to the frame (seen when no particle is drawn either).      *)
C17_BoltFadesAndExpires ==
  [][ BoltTickStep
      => LET ttl == FSub(fx.bolt[1].ttl, last_dt')
         IN  /\ fx'.bolt # None <=> FGt(ttl, 0)
             /\ fx'.bolt # None
                  => /\ fx'.bolt[1].ttl = ttl
                     /\ fx'.bolt[1].pts = fx.bolt[1].pts
                     /\ ~IsTiny(last_dt') => fx'.bolt[1].ttl < fx.bolt[1].ttl
             /\ fx'.bolt = None /\ fx.particles = <<>> => screen' = screen ]_vars

(* The live bolt of ttl 0.10 has been removed by a tick of dt = 0.10, its  *)
(* time-to-live reaching exactly 0, and the frame is as it was.            *)
C17_Witness ==
  /\ last.op = "update_and_render" /\ last_dt = BoltTtl /\ fx_calls = 1
  /\ fx.bolt = None /\ fx.particles = <<>>
  /\ screen \in FxFrames
  /\ fx.rng = BoltLive(1).rng

----------------------------------------------------------------------------
(* DiscKernel::stamp_additive. *)

StampStep == last'.op = "stamp_additive" /\ fx_calls' = fx_calls + 1

(* C18: whatever the kernel, centre, colour and strength, a stamp leaves   *)
(* the frame's size as it was, every channel of every pixel at least what  *)
(* it was and at most 255, the top 8 bits of every pixel zero, and every   *)
(* pixel that no kernel cell covers untouched.                             *)
C18_StampBrightensAndSaturates ==
  [][ StampStep
      => /\ screen'.width = screen.width /\ screen'.height = screen.height
         /\ Len(screen'.pixels) = Len(screen.pixels)
         /\ \A i \in DOMAIN screen.pixels :
              LET old == screen.pixels[i]
                  new == screen'.pixels[i]
              IN  /\ new \in 0..16777215
                  /\ R(old) <= R(new) /\ G(old) <= G(new) /\ B(old) <= B(new)
                  /\ ~UnderStamp(i, screen, cursor', Kernels[strike'.kernel].radius)
                       => new = old ]_vars

(* A full-strength stamp has saturated the blue channel of a pixel that    *)
(* held 254 and left the pixel beside it, outside the disc, as it was.     *)
C18_Witness ==
  /\ last.op = "stamp_additive" /\ last.res = Ok
  /\ cursor = <<3, 0>> /\ strike.kernel = 0 /\ strike.strength = FOne
  /\ screen.pixels[1] = Pack(1, 128, 254)
  /\ R(screen.pixels[2]) > 2 /\ B(screen.pixels[2]) = 255
  /\ B(screen.pixels[4]) = 255 /\ R(screen.pixels[4]) < 255

----------------------------------------------------------------------------
(* clear_mask and the C key of the frame loop. *)

ClearStep == last'.op \in {"clear_mask", "c_pressed"}

(* C13: clearing, by clear_mask or by the C key in the frame loop, leaves  *)
(* every mask value 0.0 whatever the mask held, keeps the mask's width,    *)
(* height and length, and does not fail.                                   *)
C13_ClearZeroesMask ==
  [][ ClearStep
      => /\ \A i \in DOMAIN mask'.alpha : mask'.alpha[i] = 0
         /\ mask'.width = mask.width /\ mask'.height = mask.height
         /\ Len(mask'.alpha) = Len(mask.alpha)
         /\ last'.res = Ok ]_vars

(* The C key has cleared, in the second iteration, the mask painted in the *)
(* first.                                                                  *)
C13_Witness ==
  /\ last.op = "c_pressed" /\ iters = 2
  /\ fx.rng # from_seed(Seed)
  /\ ~mask_has_any
  /\ mask = ZeroMask(MaxW, MaxH)

----------------------------------------------------------------------------
(* The frame loop's error paths. *)

(* C20: a step of the frame loop whose operation fails (next_frame,        *)
(* box_blur_rgb, blend_linear_in_place, present) ends main with that very  *)
(* error and presents nothing; main has returned exactly when the loop is  *)
(* done, and once it is done no step runs: no retry, no later step of the  *)
(* iteration, no further iteration.                                        *)
C20_FailureEndsLoop ==
  [][ /\ pc # "done"
      /\ (pc' = "done") <=> (result' # None)
      /\ ~last'.res.ok
           => /\ last'.op \in {"next_frame", "box_blur_rgb", "blend_linear_in_place",
                                "present"}
              /\ pc' = "done"
              /\ result' = Some(last'.res)
              /\ presented' = presented ]_vars

(* The second iteration's frame came in another size: box_blur_rgb failed, *)
(* main returned its error, and only the first frame was presented.        *)
C20_Witness ==
  /\ pc = "done" /\ iters = 2 /\ presented = 1
  /\ last.op = "box_blur_rgb"
  /\ result = Some(Err("box_blur: size mismatch src<->dst"))

----------------------------------------------------------------------------
(* box_blur_rgb: the running sums of the two passes. *)

(* The 2r+1 samples of a line around position x, each position clamped     *)
(* into the line.                                                          *)
ClampedWindow(c, line, r, x) ==
  SumSeq([k \in 1..(2 * r + 1) |-> Chan(c, line[Clamp(x - r + k - 1, Len(line)) + 1])])

(* The running sum of a pass over `line` into `out`: what it holds when    *)
(* position x is written, what is written, and where every update, the one *)
(* after the last position included, takes it.                             *)
RunningSumHolds(line, out, r) ==
  \A c \in Channels :
    /\ \A x \in 0..(Len(line) - 1) :
         /\ WindowSum(c, line, r, x) = ClampedWindow(c, line, r, x)
         /\ Chan(c, out[x + 1]) = WindowSum(c, line, r, x) \div (2 * r + 1)
         /\ WindowSum(c, line, r, x) + Chan(c, line[Min(x + r + 1, Len(line) - 1) + 1])
              >= Chan(c, line[Max(x - r, 0) + 1])
    /\ \A x \in 0..Len(line) :
         /\ WindowSum(c, line, r, x) >= 0
         /\ WindowSum(c, line, r, x) <= 255 * (2 * r + 1)

----------------------------------------------------------------------------
(* Fx::update_and_render: the particle loop under removals. *)

IntegratedOnce(ps, dt) == [i \in DOMAIN ps |-> Integrate(ps[i], dt)]

(* C22: whatever dies in a tick, the pool after update_and_render holds    *)
(* exactly the particles of the pool before it that are still alive after  *)
(* one integration step, each integrated (position, velocity, life) once:  *)
(* none skipped, none left unprocessed in a vacated slot, none stepped     *)
(* twice.                                                                  *)
C22_EachParticleSteppedOnce ==
  [][ UpdateStep
      => /\ SameBag(fx'.particles,
                    SelectSeq(IntegratedOnce(fx.particles, last_dt'), Alive))
         /\ Len(fx'.particles) <= Len(fx.particles) ]_vars

(* A full pool of two went through a tick of one second: the first         *)
(* particle died, the second was moved into its slot, processed in the     *)
(* same tick and died too.                                                 *)
C22_Witness ==
  /\ last.op = "update_and_render" /\ last_dt = FOne /\ fx_calls = 2
  /\ last_count = 12 /\ fx.max_particles = 2
  /\ fx.rng = Stream(from_seed(Seed), 10)[11]
  /\ fx.particles = <<>>

----------------------------------------------------------------------------
(* Fx::spawn_sparkles and the pool bound. *)

SpawnStep == last'.op = "spawn_sparkles" /\ fx_calls' = fx_calls + 1

(* C23: no Fx call leaves more than max_particles particles in the pool;   *)
(* spawn_sparkles(x, y, count) appends min(count, max_particles - current  *)
(* count) particles, each with life = max_life > 0, and leaves the         *)
(* particles that were there, and max_particles, as they were.             *)
C23_PoolBoundedSpawnExact ==
  [][ /\ Len(fx.particles) <= fx.max_particles
      /\ Len(fx'.particles) <= fx'.max_particles
      /\ fx'.max_particles = fx.max_particles
      /\ SpawnStep
           => LET n == Len(fx.particles)
                  added == Min(last_count', fx.max_particles - n)
              IN  /\ Len(fx'.particles) = n + added
                  /\ SubSeq(fx'.particles, 1, n) = fx.particles
                  /\ \A i \in (n + 1)..(n + added) :
                       /\ fx'.particles[i].life = fx'.particles[i].max_life
                       /\ FGt(fx'.particles[i].life, 0) ]_vars

(* spawn_sparkles(.., 12) met a pool of two slots holding one aged         *)
(* particle: it added one fresh particle and stopped.                      *)
C23_Witness ==
  /\ last.op = "spawn_sparkles" /\ last_count = 12
  /\ fx.max_particles = 2 /\ Len(fx.particles) = 2
  /\ fx.particles[1].life < fx.particles[1].max_life
  /\ fx.particles[2].life = fx.particles[2].max_life

----------------------------------------------------------------------------
(* The frame loop: mask_has_any and the order of clear and paint. *)

(* C24: whenever the loop reaches the blend decision with mask_has_any     *)
(* false, every value of the mask is 0.0; and a paint that follows the C   *)
(* key in the same iteration leaves mask_has_any true and a mask holding   *)
(* the new dab alone: the stamp's weight (at most 1.0) under the brush,    *)
(* 0.0 elsewhere.                                                          *)
C24_FlagFalseMeansEmptyMask ==
  [][ /\ pc' = "compose" /\ ~mask_has_any'
           => \A i \in DOMAIN mask'.alpha : mask'.alpha[i] = 0
      /\ last.op = "c_pressed" /\ last'.op = "paint"
           => /\ mask_has_any'
              /\ \A i \in DOMAIN mask'.alpha :
                   mask'.alpha[i] =
                     IF UnderStamp(i, mask, cursor', stamp.radius)
                     THEN FMin(WeightUnder(i, mask, cursor', stamp), FOne)
                     ELSE 0 ]_vars

(* Painted in the first iteration; in the second the C key and the mouse   *)
(* button were both down: the corner of the mask holds one dab's weight,   *)
(* not two.                                                                *)
C24_Witness ==
  /\ last.op = "paint" /\ iters = 2 /\ mask_has_any
  /\ fx.rng = Stream(from_seed(Seed), 12)[13]
  /\ mask.alpha[1] = stamp.weights[1] /\ mask.alpha[1] > 0

====
